---- MODULE Spec2Model ----
(***************************************************************************)
(* Model of the parallel multi-agent review orchestrator                   *)
(* (app/orchestrator.py): task submission to the thread pool, the          *)
(* as_completed collection loop, and the aggregation pipeline              *)
(* (deduplicate, severity filter, summary, file/severity structuring).     *)
(* Further specifications model the agents' side and the parser:          *)
(* LLMAgent.review, _call_gemini and _call_llm (app/agents/llm_base.py)    *)
(* and parse_diff with its fallback parser (app/diff_parser.py).           *)
(*                                                                         *)
(* Strings that the code concatenates (agent tag, comment text) are        *)
(* tuples of one-character strings, so that the merge key                  *)
(* f"{c.agent}:{c.comment}" is a real concatenation.  Python dicts are     *)
(* insertion-ordered: they are sequences of <<key, value>> pairs.          *)
(***************************************************************************)
EXTENDS Integers, Sequences, FiniteSets, TLC

VARIABLES
    pc,             \* position of run_multi_agent_review_parallel
    settings,       \* app.config.settings (the fields the orchestrator reads)
    changes,        \* parse_diff(diff_text): "empty" or "nonempty"
    agents,         \* agents = get_agents(selected_agents): agent names
    agent_timeout,  \* parameter agent_timeout (seconds)
    max_workers,    \* parameter max_workers: <<>> for None, <<k>> for k
    hangs,          \* set of task indices whose review never returns
    futures,        \* per submitted task: state, elapsed running time, result
    yielded,        \* indices as_completed has yielded, in order
    agent_results,  \* the list agent_results
    all_comments,   \* the list all_comments (input of the aggregation)
    unique_comments,\* unique_comments after deduplication and filtering
    report,         \* the returned ReadableReviewResponse
    warnings,       \* logger.warning calls of _structure_comments
    selected_agents,\* parameter selected_agents: [given, names]
    enabled,        \* AGENT_MAP keys whose settings.ENABLE_* flag is True
    ctor_fails,     \* AGENT_MAP keys whose class raises when instantiated
    constructed,    \* AGENT_MAP keys instantiated so far, in order
    pool,           \* the ThreadPoolExecutor: "none" or "created"
    raised,         \* exception that left run_multi_agent_review_parallel
    change_objs,    \* contents of the change-list objects, by object id
    views,          \* per submitted task: id of the list object it was given
    observed,       \* per submitted task: what it has read of its list
    completed,      \* indices of the futures in the order they finished
    waiter,         \* as_completed: called or not, futures finished by then
    seq_outcomes,   \* sequential variant: what each review did, in order
    llm_settings,   \* app.config.settings: BATCH_SIZE, MAX_RETRIES, provider
    review_pc,      \* position of LLMAgent.review
    review_changes, \* LLMAgent.review: the parameter changes
    grouped,        \* LLMAgent.review: group_changes_by_file(changes)
    cursor,         \* LLMAgent.review: current file and batch offset i
    analysed,       \* calls of _analyze_batch so far, with what each did
    found,          \* LLMAgent.review: the local list all_comments
    gemini_pc,      \* position of LLMAgent._call_gemini
    gemini_calls,   \* number of _call_gemini calls made on the agent
    gemini_api_keys,\* self.gemini_api_keys (key ids)
    current_key_index, \* self.current_key_index
    retry_count,    \* _call_gemini: parameter retry_count of the live frame
    gemini_attempts,\* generate_content calls of this _call_gemini: key used
    gemini_result,  \* what _call_gemini returned or raised
    llm_pc,         \* position of the retrying wrapper of _call_llm
    attempt_number, \* tenacity: number of the current attempt
    llm_attempts,   \* provider calls of this _call_llm: what each did
    llm_result,     \* what _call_llm returned or raised
    parse_pc,       \* position of parse_diff
    diff_text,      \* parse_diff: the parameter, as its list of lines
    parsed          \* what parse_diff did and returned

vars == <<pc, settings, changes, agents, agent_timeout, max_workers, hangs,
          futures, yielded, agent_results, all_comments, unique_comments,
          report, warnings, selected_agents, enabled, ctor_fails,
          constructed, pool, raised, change_objs, views, observed,
          completed, waiter, seq_outcomes, llm_settings, review_pc,
          review_changes, grouped, cursor, analysed, found, gemini_pc,
          gemini_calls, gemini_api_keys, current_key_index, retry_count,
          gemini_attempts,
          gemini_result, llm_pc, attempt_number, llm_attempts, llm_result,
          parse_pc, diff_text, parsed>>

resolve_vars == <<selected_agents, enabled, ctor_fails, constructed, pool,
                  raised>>
share_vars == <<change_objs, views, observed>>
loop_vars == <<completed, waiter>>
seq_vars == <<seq_outcomes>>
review_vars == <<review_pc, review_changes, grouped, cursor, analysed, found>>
gemini_vars == <<gemini_pc, gemini_calls, gemini_api_keys, current_key_index,
                 retry_count, gemini_attempts, gemini_result>>
retry_vars == <<llm_pc, attempt_number, llm_attempts, llm_result>>
parse_vars == <<parse_pc, diff_text, parsed>>
llm_vars == <<llm_settings, review_vars, gemini_vars, retry_vars>>
orchestrator_vars ==
    <<pc, settings, changes, agents, agent_timeout, max_workers, hangs,
      futures, yielded, agent_results, all_comments, unique_comments, report,
      warnings, resolve_vars, share_vars, loop_vars, seq_vars>>

None == "None"
NoSuggestion == <<>>    \* suggestion = None

(***************************************************************************)
(* Bounds of the model.                                                    *)
(***************************************************************************)
MaxAgents == 2          \* resolved agents per batch
MaxFindingsPerTask == 2 \* findings one review returns in the dispatcher model
MaxComments == 3        \* length of all_comments in the aggregation model
MaxCap == 2             \* largest MAX_COMMENTS_PER_FILE tried
MaxTimeout == 1         \* largest agent_timeout tried (seconds)
MaxWorkers == 1         \* largest explicit max_workers tried
TickSeconds == 4        \* time advances in steps of this many seconds
MaxElapsed == 8         \* running time is tracked up to this many seconds
MaxSelected == 2        \* longest selected_agents list in the resolution model
MaxMutations == 3       \* in-place changes made to one change list

(***************************************************************************)
(* Program constants.                                                      *)
(***************************************************************************)
TimeoutBuffer == 5      \* future.result(timeout=agent_timeout + 5)

Severities == {"critical", "major", "minor", "info"}

(***************************************************************************)
(* Insertion-ordered dict helpers.                                         *)
(***************************************************************************)
DictHas(d, k) == \E i \in 1..Len(d) : d[i][1] = k

DictGet(d, k) == d[CHOOSE i \in 1..Len(d) : d[i][1] = k][2]

DictSet(d, k, v) ==
    IF DictHas(d, k)
    THEN [i \in 1..Len(d) |-> IF d[i][1] = k THEN <<k, v>> ELSE d[i]]
    ELSE Append(d, <<k, v>>)

DictValues(d) == [i \in 1..Len(d) |-> d[i][2]]

Range(s) == {s[i] : i \in 1..Len(s)}

(***************************************************************************)
(* ReviewComment and AgentResult.                                          *)
(***************************************************************************)
ReviewComment(file, line, severity, agent, comment, suggestion) ==
    [file |-> file, line |-> line, severity |-> severity, agent |-> agent,
     comment |-> comment, suggestion |-> suggestion]

\* mutant: success does not look at the error
AgentResult_AlwaysSuccess(agent_name, comments, duration, error) ==
    [agent_name |-> agent_name, comments |-> comments, duration |-> duration,
     error |-> error, success |-> TRUE]

AgentResult(agent_name, comments, duration, error) ==
    [agent_name |-> agent_name, comments |-> comments, duration |-> duration,
     error |-> error, success |-> (error = None)]

(***************************************************************************)
(* _deduplicate_comments: first comment per (file, line, comment) key.     *)
(***************************************************************************)
\* mutant: the line number is left out of the key
DedupKey_NoLine(c) == <<c.file, c.comment>>

DedupKey(c) == <<c.file, c.line, c.comment>>

RECURSIVE DedupLoop(_, _)
DedupLoop(comments, unique_map) ==
    IF comments = <<>> THEN unique_map
    ELSE LET c == Head(comments)
             key == DedupKey(c)
         IN DedupLoop(Tail(comments),
                      IF ~DictHas(unique_map, key)
                      THEN DictSet(unique_map, key, c)
                      ELSE unique_map)

_deduplicate_comments(comments) == DictValues(DedupLoop(comments, <<>>))

(***************************************************************************)
(* _filter_by_severity.                                                    *)
(***************************************************************************)
severity_order(s) ==
    CASE s = "critical" -> 0
      [] s = "major" -> 1
      [] s = "minor" -> 2
      [] s = "info" -> 3
      [] OTHER -> 3     \* severity_order.get(x, 3)

\* mutant: the floor level itself is dropped
KeepsSeverity_Strict(severity, min_level) ==
    severity_order(severity) < min_level

KeepsSeverity(severity, min_level) == severity_order(severity) <= min_level

_filter_by_severity(comments, MIN_SEVERITY_LEVEL) ==
    LET min_level == severity_order(MIN_SEVERITY_LEVEL)
        keep(c) == KeepsSeverity(c.severity, min_level)
    IN SelectSeq(comments, keep)

(***************************************************************************)
(* _build_summary.  The message is kept as the record of the values the    *)
(* f-string interpolates (the elapsed wall time is not modelled).          *)
(***************************************************************************)
\* mutant: every finding is counted under every severity
CountSeverity_All(comments, s) == Len(comments)

CountSeverity(comments, s) ==
    Cardinality({i \in 1..Len(comments) : comments[i].severity = s})

SummaryMessage(total, successful_agents, total_agents, counts) ==
    IF total = 0
    THEN [kind |-> "no_issues"]
    ELSE [kind |-> "found", total |-> total,
          successful_agents |-> successful_agents,
          total_agents |-> total_agents,
          critical |-> counts["critical"], major |-> counts["major"],
          minor |-> counts["minor"], info |-> counts["info"]]

_build_summary(comments, results) ==
    LET severity_counts == [s \in Severities |-> CountSeverity(comments, s)]
        total == Len(comments)
        successful_agents ==
            Cardinality({i \in 1..Len(results) : results[i].success})
        total_agents == Len(results)
    IN [total_comments |-> total,
        critical |-> severity_counts["critical"],
        major |-> severity_counts["major"],
        minor |-> severity_counts["minor"],
        info |-> severity_counts["info"],
        message |-> SummaryMessage(total, successful_agents, total_agents,
                                   severity_counts)]

(***************************************************************************)
(* _structure_comments.                                                    *)
(***************************************************************************)
\* first loop: files[c.file][c.severity].append(c)
RECURSIVE GroupLoop(_, _)
GroupLoop(comments, files) ==
    IF comments = <<>> THEN files
    ELSE LET c == Head(comments)
             severity_map == IF DictHas(files, c.file)
                             THEN DictGet(files, c.file) ELSE <<>>
             bucket == IF DictHas(severity_map, c.severity)
                       THEN DictGet(severity_map, c.severity) ELSE <<>>
         IN GroupLoop(Tail(comments),
                      DictSet(files, c.file,
                              DictSet(severity_map, c.severity,
                                      Append(bucket, c))))

\* key = f"{c.agent}:{c.comment}"
\* mutant: the key is the comment text alone
MergeKey_CommentOnly(c) == c.comment

MergeKey(c) == c.agent \o <<":">> \o c.comment

\* mutant: a new line number goes to the front of the list
MergeLines_Prepend(lines, line) ==
    IF line \notin Range(lines) THEN <<line>> \o lines ELSE lines

MergeLines(lines, line) ==
    IF line \notin Range(lines) THEN Append(lines, line) ELSE lines

RECURSIVE MergeLoop(_, _)
MergeLoop(file_comments, merged) ==
    IF file_comments = <<>> THEN merged
    ELSE LET c == Head(file_comments)
             key == MergeKey(c)
         IN MergeLoop(Tail(file_comments),
                IF ~DictHas(merged, key)
                THEN DictSet(merged, key,
                             [agent |-> c.agent, comment |-> c.comment,
                              suggestion |-> c.suggestion,
                              lines |-> <<c.line>>])
                ELSE LET e == DictGet(merged, key)
                     IN DictSet(merged, key,
                                [e EXCEPT !.lines = MergeLines(@, c.line)]))

Truncates(comment_list, cap) == Len(comment_list) > cap

\* mutant: the last cap entries are kept instead of the first
Truncate_KeepLast(comment_list, cap) ==
    IF Truncates(comment_list, cap)
    THEN SubSeq(comment_list, Len(comment_list) - cap + 1, Len(comment_list))
    ELSE comment_list

Truncate(comment_list, cap) ==
    IF Truncates(comment_list, cap)
    THEN SubSeq(comment_list, 1, cap)
    ELSE comment_list

MergedBucket(file_comments) == DictValues(MergeLoop(file_comments, <<>>))

\* mutant: every severity is given the entries of the file's first bucket
CleanSeverityMap_FirstBucket(severity_map, cap) ==
    [j \in 1..Len(severity_map) |->
        <<severity_map[j][1], Truncate(MergedBucket(severity_map[1][2]), cap)>>]

CleanSeverityMap(severity_map, cap) ==
    [j \in 1..Len(severity_map) |->
        <<severity_map[j][1], Truncate(MergedBucket(severity_map[j][2]), cap)>>]

_structure_comments(comments, cap) ==
    LET files == GroupLoop(comments, <<>>)
    IN [i \in 1..Len(files) |->
            <<files[i][1], CleanSeverityMap(files[i][2], cap)>>]

\* the logger.warning calls of _structure_comments, in order
RECURSIVE BucketWarnings(_, _, _)
BucketWarnings(file_path, severity_map, cap) ==
    IF severity_map = <<>> THEN <<>>
    ELSE LET comment_list == MergedBucket(Head(severity_map)[2])
         IN (IF Truncates(comment_list, cap)
             THEN <<[file |-> file_path, count |-> Len(comment_list),
                     cap |-> cap]>>
             ELSE <<>>)
            \o BucketWarnings(file_path, Tail(severity_map), cap)

RECURSIVE FileWarnings(_, _)
FileWarnings(files, cap) ==
    IF files = <<>> THEN <<>>
    ELSE BucketWarnings(Head(files)[1], Head(files)[2], cap)
         \o FileWarnings(Tail(files), cap)

StructureWarnings(comments, cap) == FileWarnings(GroupLoop(comments, <<>>), cap)

_empty_review(message) ==
    [summary |-> [total_comments |-> 0, critical |-> 0, major |-> 0,
                  minor |-> 0, info |-> 0,
                  message |-> [kind |-> message]],
     files |-> <<>>]

(***************************************************************************)
(* Inputs.                                                                 *)
(***************************************************************************)
\* AGENT_MAP: registry key -> agent class, written as the name attribute of
\* the class (the agent tag of its findings)
AGENT_MAP ==
    << <<"code_quality_agent", <<"c", "q">>>>,
       <<"logic_agent", <<"l", "g">>>>,
       <<"security_agent", <<"s", "c">>>>,
       <<"performance_agent", <<"p", "f">>>>,
       <<"readability_agent", <<"r", "d">>>> >>

AgentKeys == {AGENT_MAP[i][1] : i \in 1..Len(AGENT_MAP)}

\* selected_agents = None, and selected_agents = a list of names
NotSelected == [given |-> FALSE, names |-> <<>>]
Selected(names) == [given |-> TRUE, names |-> names]

\* "if selected_agents:" is false for None and for the empty list
Truthy(selected) == selected.given /\ selected.names # <<>>

NoResolution == [agents |-> <<>>, constructed |-> <<>>, raised |-> None]

\* mutant: the new instance goes to the front of the list
ExplicitStep_Prepend(acc, name) ==
    IF DictHas(AGENT_MAP, name)
    THEN IF name \in ctor_fails
         THEN [acc EXCEPT !.constructed = Append(@, name)]
         ELSE [acc EXCEPT !.constructed = Append(@, name),
                          !.agents = <<DictGet(AGENT_MAP, name)>> \o @]
    ELSE acc

\* body of "for agent_name in selected_agents": a known name is
\* instantiated, a raising constructor is logged and skipped, an unknown
\* name is logged and skipped
ExplicitStep(acc, name) ==
    IF DictHas(AGENT_MAP, name)
    THEN IF name \in ctor_fails
         THEN [acc EXCEPT !.constructed = Append(@, name)]
         ELSE [acc EXCEPT !.constructed = Append(@, name),
                          !.agents = Append(@, DictGet(AGENT_MAP, name))]
    ELSE acc

RECURSIVE ExplicitLoop(_, _)
ExplicitLoop(names, acc) ==
    IF names = <<>> THEN acc
    ELSE ExplicitLoop(Tail(names), ExplicitStep(acc, Head(names)))

\* mutant: the logic agent is tried before the code quality agent
DefaultOrder_LogicFirst ==
    <<"logic_agent", "code_quality_agent", "security_agent",
      "performance_agent", "readability_agent">>

\* the order of the "if settings.ENABLE_..." statements
DefaultOrder ==
    <<"code_quality_agent", "logic_agent", "security_agent",
      "performance_agent", "readability_agent">>

\* one "if settings.ENABLE_X: agents.append(AGENT_MAP[key]())": nothing
\* catches a raising constructor here, the exception leaves get_agents
DefaultStep(acc, key) ==
    IF acc.raised # None \/ key \notin enabled THEN acc
    ELSE IF key \in ctor_fails
         THEN [acc EXCEPT !.constructed = Append(@, key),
                          !.raised = "ValueError"]
         ELSE [acc EXCEPT !.constructed = Append(@, key),
                          !.agents = Append(@, DictGet(AGENT_MAP, key))]

RECURSIVE DefaultLoop(_, _)
DefaultLoop(keys, acc) ==
    IF keys = <<>> THEN acc
    ELSE DefaultLoop(Tail(keys), DefaultStep(acc, Head(keys)))

get_agents(selected) ==
    IF Truthy(selected)
    THEN ExplicitLoop(selected.names, NoResolution)
    ELSE DefaultLoop(DefaultOrder, NoResolution)

\* the selections of the dispatcher model: n names, alternating between two
\* registry keys (a name can be selected twice)
SelectedKeys(n) ==
    [i \in 1..n |-> IF i % 2 = 1 THEN "logic_agent" ELSE "security_agent"]

ReviewErrors == {"RuntimeError"}

\* what one review can return in the dispatcher model: a prefix of this
\* list, tagged with the agent's own name; different agents can report the
\* same (file, line, text)
TaskFindings(name) ==
    <<ReviewComment("a.py", 5, "critical", name, <<"x">>, NoSuggestion),
      ReviewComment("a.py", 9, "minor", name, <<"x">>, <<"f">>),
      ReviewComment("b.py", 5, "major", name, <<"y", ":">>, NoSuggestion)>>

ReviewOutcomes(name) ==
    {[kind |-> "return", comments |-> SubSeq(TaskFindings(name), 1, k),
      error |-> None] :
        k \in {j \in 0..MaxFindingsPerTask : j <= Len(TaskFindings(name))}}
    \cup {[kind |-> "raise", comments |-> <<>>, error |-> e] :
            e \in ReviewErrors}

\* findings of the aggregation model: every line, agent tag and text within
\* one (file, severity) bucket, and every file and severity for one of them
AggFiles == {"a.py", "b.py"}
AggLines == {5, 9}
AggTags == {<<"l", "g">>, <<"s", "c">>}
AggTexts == {<<"x">>, <<"y", ":">>}

AggSuggestion(a, s) ==
    IF s = "critical" \/ a = <<"s", "c">> THEN <<"f">> ELSE NoSuggestion

AggFindings ==
    {ReviewComment("a.py", l, "major", a, t, AggSuggestion(a, "major")) :
        l \in AggLines, a \in AggTags, t \in AggTexts}
    \cup
    {ReviewComment(f, 5, s, <<"l", "g">>, <<"x">>,
                   AggSuggestion(<<"l", "g">>, s)) :
        f \in AggFiles, s \in Severities}
    \cup
    {ReviewComment("a.py", 5, "critical", <<"s", "c">>, <<"x">>,
                   AggSuggestion(<<"s", "c">>, "critical"))}

SeverityLevels == {"info", "minor", "major", "critical", "high"}

SettingsChoices(levels) ==
    [MIN_SEVERITY_LEVEL : levels, MAX_COMMENTS_PER_FILE : 1..MaxCap]

(***************************************************************************)
(* run_agent_safe: the review outcome becomes an AgentResult.              *)
(***************************************************************************)
\* mutant: the exception of the review is swallowed
run_agent_safe_DropsError(name, outcome, duration) ==
    AgentResult(name, outcome.comments, duration, None)

run_agent_safe(name, outcome, duration) ==
    IF outcome.kind = "return"
    THEN AgentResult(name, outcome.comments, duration, None)
    ELSE AgentResult(name, <<>>, duration, outcome.error)

(***************************************************************************)
(* Thread pool and futures.                                                *)
(***************************************************************************)
\* agent.review has neither returned nor raised yet
NoOutcome == [kind |-> "none", comments |-> <<>>, error |-> None]

\* outcome: what agent.review did in this task (recorded for the claims)
\* invoked: how many times a worker has called run_agent_safe for the task
PendingFuture ==
    [state |-> "pending", elapsed |-> 0, result |-> None, exception |-> None,
     outcome |-> NoOutcome, invoked |-> 0]

\* mutant: without max_workers the pool has a single worker
PoolSize_Single(n) == IF max_workers = <<>> THEN 1 ELSE max_workers[1]

\* max_workers of the pool for n resolved agents
PoolSize(n) == IF max_workers = <<>> THEN n ELSE max_workers[1]

Workers == PoolSize(Len(agents))

Running == {i \in 1..Len(futures) : futures[i].state = "running"}

\* future.result(timeout): the value or exception of a finished future,
\* TimeoutError if the future is not finished when the wait runs out
future_result(f) ==
    IF f.state = "finished"
    THEN IF f.exception = None
         THEN [kind |-> "value", value |-> f.result]
         ELSE [kind |-> "exception", error |-> f.exception]
    ELSE [kind |-> "exception", error |-> "TimeoutError"]

\* as_completed has not been called
NoWaiter == [installed |-> FALSE, finished |-> {}]

Finished == {i \in 1..Len(futures) : futures[i].state = "finished"}

\* position of future i in the order of completion
Rank(i) == CHOOSE k \in 1..Len(completed) : completed[k] = i

\* mutant: the futures are yielded in the order they were submitted
AsCompletedYields_SubmissionOrder(i) ==
    /\ waiter.installed
    /\ i \in Finished
    /\ i \notin Range(yielded)
    /\ \A j \in 1..(i - 1) : j \in Range(yielded)

\* as_completed yields a future once, and only when it has finished: first
\* the futures that had finished when it was called, as a set (in no
\* particular order), then the others in the order they finish
AsCompletedYields(i) ==
    /\ waiter.installed
    /\ i \in Finished
    /\ i \notin Range(yielded)
    /\ \/ i \in waiter.finished
       \/ /\ waiter.finished \subseteq Range(yielded)
          /\ \A j \in Finished \ (Range(yielded) \cup waiter.finished) :
                Rank(i) <= Rank(j)

\* mutant: the loop stops after the first completed future
AsCompletedExhausted_FirstOnly == yielded # <<>>

AsCompletedExhausted == \A i \in 1..Len(futures) : i \in Range(yielded)

\* body of the collection loop: the AgentResult appended for future i
Collected(i) ==
    LET r == future_result(futures[i])
    IN IF r.kind = "value" THEN r.value
       ELSE IF r.error = "TimeoutError"
            THEN AgentResult(agents[i], <<>>, agent_timeout, "TimeoutError")
            ELSE AgentResult(agents[i], <<>>, 0, r.error)

Successful(results) ==
    LET ok(r) == r.success IN SelectSeq(results, ok)

RECURSIVE Flatten(_)
Flatten(results) ==
    IF results = <<>> THEN <<>>
    ELSE Head(results).comments \o Flatten(Tail(results))

(***************************************************************************)
(* Aggregation steps shared by the parallel and the sequential variant.    *)
(***************************************************************************)
Aggregated(comments) ==
    LET unique == _deduplicate_comments(comments)
    IN IF settings.MIN_SEVERITY_LEVEL # "info"
       THEN _filter_by_severity(unique, settings.MIN_SEVERITY_LEVEL)
       ELSE unique

BuildResponse(comments, results) ==
    [summary |-> _build_summary(comments, results),
     files |-> _structure_comments(comments, settings.MAX_COMMENTS_PER_FILE)]

(***************************************************************************)
(* Actions of run_multi_agent_review_parallel.                             *)
(***************************************************************************)
\* mutant: the agents are resolved before the changes are looked at
ResolvesAgents_Always == TRUE

\* get_agents is called only after the "if not changes: return"
ResolvesAgents == changes # "empty"

\* mutant: the empty agent list is not looked at
NoAgents_Never(resolved) == FALSE

\* "if not agents"
NoAgents(resolved) == resolved = <<>>

\* the list object task i is given: every task is given `changes` itself
TaskView(i) == 1

\* parse, resolve, short-circuits, create the pool, submit every agent
Submit ==
    /\ pc = "start"
    /\ LET r == IF ResolvesAgents THEN get_agents(selected_agents)
                ELSE NoResolution
           n == Len(r.agents)
       IN /\ constructed' = r.constructed
          /\ IF changes = "empty"
             THEN /\ report' = _empty_review("no_changes")
                  /\ pc' = "returned"
                  /\ UNCHANGED <<agents, futures, pool, raised, views,
                                 observed>>
             ELSE IF r.raised # None
             THEN /\ raised' = r.raised
                  /\ pc' = "raised"
                  /\ UNCHANGED <<agents, futures, pool, report, views,
                                 observed>>
             ELSE IF NoAgents(r.agents)
             THEN /\ agents' = r.agents
                  /\ report' = _empty_review("no_agents")
                  /\ pc' = "returned"
                  /\ UNCHANGED <<futures, pool, raised, views, observed>>
             ELSE IF PoolSize(n) <= 0
             THEN /\ agents' = r.agents
                  /\ raised' = "ValueError"
                  /\ pc' = "raised"
                  /\ UNCHANGED <<futures, pool, report, views, observed>>
             ELSE /\ agents' = r.agents
                  /\ pool' = "created"
                  /\ futures' = [i \in 1..n |-> PendingFuture]
                  /\ views' = [i \in 1..n |-> TaskView(i)]
                  /\ observed' = [i \in 1..n |-> <<>>]
                  /\ pc' = "collect"
                  /\ UNCHANGED <<report, raised>>
    /\ UNCHANGED <<settings, changes, agent_timeout, max_workers, hangs,
                   yielded, agent_results, all_comments, unique_comments,
                   warnings, selected_agents, enabled, ctor_fails,
                   change_objs, loop_vars, seq_vars, llm_vars, parse_vars>>

\* mutant: a task that failed is run again
Startable_RetryFailed(f) ==
    \/ f.state = "pending"
    \/ f.state = "finished" /\ f.outcome.kind = "raise" /\ f.invoked < 2

\* a work item is taken from the queue once
Startable(f) == f.state = "pending"

\* a free worker thread takes the oldest queued work item and calls
\* run_agent_safe, which calls agent.review
WorkerStart(i) ==
    /\ i \in 1..Len(futures)
    /\ Startable(futures[i])
    /\ \A j \in 1..(i - 1) : futures[j].state # "pending"
    /\ Cardinality(Running) < Workers
    /\ futures' = [futures EXCEPT ![i].state = "running",
                                  ![i].invoked = @ + 1]
    /\ UNCHANGED <<resolve_vars, share_vars, loop_vars, seq_vars, llm_vars,
                   parse_vars, pc,
                   settings, changes, agents,
                   agent_timeout, max_workers,
                   hangs, yielded, agent_results, all_comments,
                   unique_comments, report, warnings>>

\* TickSeconds pass for every running task
Tick ==
    /\ \E i \in Running : futures[i].elapsed < MaxElapsed
    /\ futures' = [i \in 1..Len(futures) |->
                    IF i \in Running
                    THEN [futures[i] EXCEPT !.elapsed =
                            IF @ + TickSeconds < MaxElapsed
                            THEN @ + TickSeconds ELSE MaxElapsed]
                    ELSE futures[i]]
    /\ UNCHANGED <<resolve_vars, share_vars, loop_vars, seq_vars, llm_vars,
                   parse_vars, pc,
                   settings, changes, agents,
                   agent_timeout, max_workers,
                   hangs, yielded, agent_results, all_comments,
                   unique_comments, report, warnings>>

\* agent.review returns or raises inside run_agent_safe; the future finishes
WorkerFinish(i) ==
    /\ i \in Running
    /\ i \notin hangs
    /\ \E outcome \in ReviewOutcomes(agents[i]) :
          futures' = [futures EXCEPT
                        ![i].state = "finished",
                        ![i].outcome = outcome,
                        ![i].result = run_agent_safe(agents[i], outcome,
                                                     futures[i].elapsed)]
    /\ completed' = Append(completed, i)
    /\ UNCHANGED <<resolve_vars, share_vars, waiter, seq_vars, llm_vars,
                   parse_vars, pc,
                   settings, changes, agents,
                   agent_timeout, max_workers,
                   hangs, yielded, agent_results, all_comments,
                   unique_comments, report, warnings>>

\* the loop starts: as_completed notes the futures that have finished
AsCompletedCalled ==
    /\ pc = "collect"
    /\ ~waiter.installed
    /\ waiter' = [installed |-> TRUE, finished |-> Finished]
    /\ UNCHANGED <<resolve_vars, share_vars, completed, seq_vars, llm_vars,
                   parse_vars, pc,
                   settings, changes, agents, agent_timeout, max_workers,
                   hangs, futures, yielded, agent_results, all_comments,
                   unique_comments, report, warnings>>

\* one iteration of "for future in as_completed(future_to_agent)"
Collect(i) ==
    /\ pc = "collect"
    /\ i \in 1..Len(futures)
    /\ AsCompletedYields(i)
    /\ yielded' = Append(yielded, i)
    /\ agent_results' = Append(agent_results, Collected(i))
    /\ UNCHANGED <<resolve_vars, share_vars, loop_vars, seq_vars, llm_vars,
                   parse_vars, pc,
                   settings, changes, agents,
                   agent_timeout, max_workers,
                   hangs, futures, all_comments, unique_comments, report,
                   warnings>>

\* the loop ends, the pool shuts down, the successful comments are flattened
LeaveLoop ==
    /\ pc = "collect"
    /\ AsCompletedExhausted
    /\ Running = {}
    /\ all_comments' = Flatten(Successful(agent_results))
    /\ pc' = "aggregate"
    /\ UNCHANGED <<resolve_vars, share_vars, loop_vars, seq_vars, llm_vars,
                   parse_vars,
                   settings, changes, agents,
                   agent_timeout, max_workers,
                   hangs, futures, yielded, agent_results, unique_comments,
                   report, warnings>>

\* deduplicate, filter, summarise, structure, return
AggregateSteps(results) ==
    /\ unique_comments' = Aggregated(all_comments)
    /\ report' = BuildResponse(unique_comments', results)
    /\ warnings' = StructureWarnings(unique_comments',
                                     settings.MAX_COMMENTS_PER_FILE)
    /\ pc' = "returned"

Aggregate ==
    /\ pc = "aggregate"
    /\ AggregateSteps(agent_results)
    /\ UNCHANGED <<resolve_vars, share_vars, loop_vars, seq_vars, llm_vars,
                   parse_vars,
                   settings, changes, agents,
                   agent_timeout, max_workers,
                   hangs, futures, yielded, agent_results, all_comments>>

(***************************************************************************)
(* The dispatcher specification.                                           *)
(***************************************************************************)
NoReport == [summary |-> None, files |-> <<>>]

\* before get_agents: nothing instantiated, no pool, nothing raised
NoneResolved ==
    /\ constructed = <<>>
    /\ pool = "none"
    /\ raised = None

\* nothing has finished, as_completed has not been called, the sequential
\* variant has run no review
NoneCollected ==
    /\ completed = <<>>
    /\ waiter = NoWaiter
    /\ seq_outcomes = <<>>

\* parse_diff has not returned
NoParse == [path |-> "none", result |-> <<>>, raised |-> None]

\* _call_gemini, _call_llm have not returned
NoResult == [kind |-> "none", value |-> None]

\* no LLMAgent method and no parse_diff call is under way
NoReviewCall ==
    /\ review_pc = "idle"
    /\ review_changes = <<>>
    /\ grouped = <<>>
    /\ cursor = [file |-> 1, i |-> 0]
    /\ analysed = <<>>
    /\ found = <<>>

NoGeminiCall ==
    /\ gemini_pc = "idle"
    /\ gemini_calls = 0
    /\ gemini_api_keys = <<>>
    /\ current_key_index = 0
    /\ retry_count = 0
    /\ gemini_attempts = <<>>
    /\ gemini_result = NoResult

NoLlmCall ==
    /\ llm_pc = "idle"
    /\ attempt_number = 0
    /\ llm_attempts = <<>>
    /\ llm_result = NoResult

NoParseCall ==
    /\ parse_pc = "idle"
    /\ diff_text = <<>>
    /\ parsed = NoParse

DefaultLlmSettings ==
    [BATCH_SIZE |-> 10, MAX_RETRIES |-> 3, LLM_PROVIDER |-> "gemini"]

NoneAnalysed ==
    /\ llm_settings = DefaultLlmSettings
    /\ NoReviewCall
    /\ NoGeminiCall
    /\ NoLlmCall
    /\ NoParseCall

\* parse_diff has built one list object; no task has it yet
NoneShared ==
    /\ change_objs = << <<>> >>
    /\ views = <<>>
    /\ observed = <<>>

Init ==
    /\ pc = "start"
    /\ settings \in SettingsChoices({"info", "major"})
    /\ changes \in {"empty", "nonempty"}
    /\ agents = <<>>
    /\ agent_timeout \in 1..MaxTimeout
    /\ max_workers \in {<<>>} \cup {<<k>> : k \in 1..MaxWorkers}
    /\ \E n \in 0..MaxAgents :
          /\ selected_agents = Selected(SelectedKeys(n))
          /\ hangs \in SUBSET (1..n)
    /\ enabled = {}
    /\ ctor_fails = {}
    /\ NoneResolved
    /\ NoneShared
    /\ NoneCollected
    /\ NoneAnalysed
    /\ futures = <<>>
    /\ yielded = <<>>
    /\ agent_results = <<>>
    /\ all_comments = <<>>
    /\ unique_comments = <<>>
    /\ report = NoReport
    /\ warnings = <<>>

Next ==
    \/ Submit
    \/ \E i \in 1..MaxAgents : WorkerStart(i)
    \/ Tick
    \/ \E i \in 1..MaxAgents : WorkerFinish(i)
    \/ AsCompletedCalled
    \/ \E i \in 1..MaxAgents : Collect(i)
    \/ LeaveLoop
    \/ Aggregate

Spec == Init /\ [][Next]_vars

\* every thread that can run does run: the main thread takes its next step,
\* a free worker starts the next queued task, a review that is not hung
\* returns or raises.  A hung review (i \in hangs) has no step at all: that
\* thread blocks forever whatever time passes.
Fairness ==
    /\ WF_vars(Submit)
    /\ \A i \in 1..MaxAgents : WF_vars(WorkerStart(i))
    /\ \A i \in 1..MaxAgents : WF_vars(WorkerFinish(i))
    /\ WF_vars(AsCompletedCalled)
    /\ \A i \in 1..MaxAgents : WF_vars(Collect(i))
    /\ WF_vars(LeaveLoop)
    /\ WF_vars(Aggregate)

FairSpec == Spec /\ Fairness

(***************************************************************************)
(* The aggregation specification: all_comments is any list of at most      *)
(* MaxComments findings, and the aggregation steps are applied to it as     *)
(* run_multi_agent_review_sequential applies them (no AgentResult list).    *)
(***************************************************************************)
AggInit ==
    /\ pc = "input"
    /\ settings \in SettingsChoices(SeverityLevels)
    /\ changes = "nonempty"
    /\ agents = <<>>
    /\ agent_timeout = 1
    /\ max_workers = <<>>
    /\ hangs = {}
    /\ selected_agents = NotSelected
    /\ enabled = {}
    /\ ctor_fails = {}
    /\ NoneResolved
    /\ NoneShared
    /\ NoneCollected
    /\ NoneAnalysed
    /\ futures = <<>>
    /\ yielded = <<>>
    /\ agent_results = <<>>
    /\ all_comments = <<>>
    /\ unique_comments = <<>>
    /\ report = NoReport
    /\ warnings = <<>>

AggExtend ==
    /\ pc = "input"
    /\ Len(all_comments) < MaxComments
    /\ \E c \in AggFindings : all_comments' = Append(all_comments, c)
    /\ UNCHANGED <<resolve_vars, share_vars, loop_vars, seq_vars, llm_vars,
                   parse_vars, pc,
                   settings, changes, agents,
                   agent_timeout, max_workers,
                   hangs, futures, yielded, agent_results, unique_comments,
                   report, warnings>>

\* mutant: the aggregation empties the list it was given
AggApply_ConsumesInput ==
    /\ pc = "input"
    /\ AggregateSteps(<<>>)
    /\ all_comments' = <<>>
    /\ UNCHANGED <<resolve_vars, share_vars, loop_vars, seq_vars, llm_vars,
                   parse_vars, settings,
                   changes, agents, agent_timeout, max_workers,
                   hangs, futures, yielded, agent_results>>

AggApply ==
    /\ pc = "input"
    /\ AggregateSteps(<<>>)
    /\ UNCHANGED <<resolve_vars, share_vars, loop_vars, seq_vars, llm_vars,
                   parse_vars,
                   settings, changes, agents,
                   agent_timeout, max_workers,
                   hangs, futures, yielded, agent_results, all_comments>>

AggNext == AggExtend \/ AggApply

AggSpec == AggInit /\ [][AggNext]_vars

(***************************************************************************)
(* run_multi_agent_review_sequential: the agents are reviewed one after    *)
(* the other in the main thread, a raising review is skipped, and the      *)
(* aggregation steps run with an empty AgentResult list.                   *)
(***************************************************************************)
\* parse, resolve, the two short-circuits
SeqEnter ==
    /\ pc = "seq_start"
    /\ LET r == IF ResolvesAgents THEN get_agents(selected_agents)
                ELSE NoResolution
       IN /\ constructed' = r.constructed
          /\ IF changes = "empty"
             THEN /\ report' = _empty_review("no_changes")
                  /\ pc' = "returned"
                  /\ UNCHANGED <<agents, raised>>
             ELSE IF r.raised # None
             THEN /\ raised' = r.raised
                  /\ pc' = "raised"
                  /\ UNCHANGED <<agents, report>>
             ELSE IF NoAgents(r.agents)
             THEN /\ agents' = r.agents
                  /\ report' = _empty_review("no_agents")
                  /\ pc' = "returned"
                  /\ UNCHANGED raised
             ELSE /\ agents' = r.agents
                  /\ pc' = "seq_loop"
                  /\ UNCHANGED <<report, raised>>
    /\ UNCHANGED <<share_vars, loop_vars, seq_vars, llm_vars,
                   parse_vars,
                   settings, changes,
                   agent_timeout, max_workers, hangs, futures, yielded,
                   agent_results, all_comments, unique_comments, warnings,
                   selected_agents, enabled, ctor_fails, pool>>

\* what one iteration of "for agent in agents" adds to all_comments
SeqExtends(outcome) ==
    IF outcome.kind = "return" THEN outcome.comments ELSE <<>>

\* one iteration of "for agent in agents": the review returns or raises
SeqReview ==
    /\ pc = "seq_loop"
    /\ Len(seq_outcomes) < Len(agents)
    /\ LET i == Len(seq_outcomes) + 1
       IN /\ i \notin hangs
          /\ \E outcome \in ReviewOutcomes(agents[i]) :
                /\ seq_outcomes' = Append(seq_outcomes, outcome)
                /\ all_comments' = all_comments \o SeqExtends(outcome)
    /\ UNCHANGED <<resolve_vars, share_vars, loop_vars, llm_vars, parse_vars,
                   pc, settings, changes, agents, agent_timeout, max_workers,
                   hangs, futures, yielded, agent_results, unique_comments,
                   report, warnings>>

\* deduplicate, filter, _build_summary(unique_comments, [], ...), structure
SeqAggregate ==
    /\ pc = "seq_loop"
    /\ Len(seq_outcomes) = Len(agents)
    /\ AggregateSteps(<<>>)
    /\ UNCHANGED <<resolve_vars, share_vars, loop_vars, seq_vars, llm_vars,
                   parse_vars, settings,
                   changes, agents, agent_timeout, max_workers, hangs,
                   futures, yielded, agent_results, all_comments>>

SeqInit ==
    /\ pc = "seq_start"
    /\ settings \in SettingsChoices({"info", "major"})
    /\ changes \in {"empty", "nonempty"}
    /\ agents = <<>>
    /\ agent_timeout = 1
    /\ max_workers = <<>>
    /\ \E n \in 0..MaxAgents :
          /\ selected_agents = Selected(SelectedKeys(n))
          /\ hangs \in SUBSET (1..n)
    /\ enabled = {}
    /\ ctor_fails = {}
    /\ NoneResolved
    /\ NoneShared
    /\ NoneCollected
    /\ NoneAnalysed
    /\ futures = <<>>
    /\ yielded = <<>>
    /\ agent_results = <<>>
    /\ all_comments = <<>>
    /\ unique_comments = <<>>
    /\ report = NoReport
    /\ warnings = <<>>

SeqNext == SeqEnter \/ SeqReview \/ SeqAggregate

SeqSpec == SeqInit /\ [][SeqNext]_vars

(***************************************************************************)
(* The merge specification: the aggregation applied to findings whose      *)
(* agent tag or comment text holds a colon, the separator of the merge key *)
(* (ReviewComment.agent and ReviewComment.comment are plain str fields).   *)
(***************************************************************************)
ColonTags == {<<"l">>, <<"l", ":", "g">>}
ColonTexts == {<<"g", ":", "x">>, <<"x">>}

ColonFindings ==
    {ReviewComment("a.py", l, "major", a, t, NoSuggestion) :
        l \in AggLines, a \in ColonTags, t \in ColonTexts}

MergeInit ==
    /\ AggInit
    /\ settings.MIN_SEVERITY_LEVEL = "info"

MergeExtend ==
    /\ pc = "input"
    /\ Len(all_comments) < MaxComments
    /\ \E c \in ColonFindings : all_comments' = Append(all_comments, c)
    /\ UNCHANGED <<resolve_vars, share_vars, loop_vars, seq_vars, llm_vars,
                   parse_vars, pc,
                   settings, changes, agents, agent_timeout, max_workers,
                   hangs, futures, yielded, agent_results, unique_comments,
                   report, warnings>>

MergeNext == MergeExtend \/ AggApply

MergeSpec == MergeInit /\ [][MergeNext]_vars

(***************************************************************************)
(* The resolution specification: the entry of                              *)
(* run_multi_agent_review_parallel (parse, get_agents, the two             *)
(* short-circuits, creation of the pool, submission) for every selection   *)
(* of at most MaxSelected names, every setting of the ENABLE flags and     *)
(* every set of classes whose constructor raises.                          *)
(***************************************************************************)
SelectableNames == {"logic_agent", "security_agent", "unknown_agent"}

NameLists == UNION {[1..k -> SelectableNames] : k \in 0..MaxSelected}

\* LLMAgent.__init__ raises ValueError without credentials or with an
\* unsupported provider
CtorFailKeys == {"logic_agent", "security_agent"}

ResolveInit ==
    /\ pc = "start"
    /\ settings = [MIN_SEVERITY_LEVEL |-> "info", MAX_COMMENTS_PER_FILE |-> 1]
    /\ changes \in {"empty", "nonempty"}
    /\ agents = <<>>
    /\ agent_timeout = 1
    /\ max_workers \in {<<>>} \cup {<<k>> : k \in 0..MaxWorkers}
    /\ hangs = {}
    /\ selected_agents \in {NotSelected} \cup {Selected(l) : l \in NameLists}
    /\ enabled \in SUBSET AgentKeys
    /\ ctor_fails \in SUBSET CtorFailKeys
    /\ NoneResolved
    /\ NoneShared
    /\ NoneCollected
    /\ NoneAnalysed
    /\ futures = <<>>
    /\ yielded = <<>>
    /\ agent_results = <<>>
    /\ all_comments = <<>>
    /\ unique_comments = <<>>
    /\ report = NoReport
    /\ warnings = <<>>

ResolveNext == Submit

ResolveSpec == ResolveInit /\ [][ResolveNext]_vars

(***************************************************************************)
(* The dispatcher with the settings fixed: every interleaving of the       *)
(* workers and the collection loop, for the claims that do not depend on   *)
(* the severity floor or the cap.                                          *)
(***************************************************************************)
DispatchInit ==
    /\ Init
    /\ settings = [MIN_SEVERITY_LEVEL |-> "info", MAX_COMMENTS_PER_FILE |-> 2]

DispatchSpec == DispatchInit /\ [][Next]_vars

(***************************************************************************)
(* The sharing specification: what the running reviews can do to the list  *)
(* object they were given.  BaseAgent.review(changes) receives a reference *)
(* to a Python list of ParsedChange objects, both mutable; an in-place     *)
(* change by task i (changes.append, changes[k].content = ...) is written  *)
(* as i appended to the contents of the object, a read records the         *)
(* contents seen.                                                          *)
(***************************************************************************)
TaskMutates(i) ==
    /\ i \in Running
    /\ Len(change_objs[views[i]]) < MaxMutations
    /\ change_objs' = [change_objs EXCEPT ![views[i]] = Append(@, i)]
    /\ UNCHANGED <<resolve_vars, loop_vars, seq_vars, llm_vars,
                   parse_vars, pc,
                   settings, changes, agents,
                   agent_timeout, max_workers, hangs, futures, yielded,
                   agent_results, all_comments, unique_comments, report,
                   warnings, views, observed>>

TaskReads(i) ==
    /\ i \in Running
    /\ observed' = [observed EXCEPT ![i] = <<change_objs[views[i]]>>]
    /\ UNCHANGED <<resolve_vars, loop_vars, seq_vars, llm_vars,
                   parse_vars, pc,
                   settings, changes, agents,
                   agent_timeout, max_workers, hangs, futures, yielded,
                   agent_results, all_comments, unique_comments, report,
                   warnings, change_objs, views>>

ShareInit ==
    /\ pc = "start"
    /\ settings = [MIN_SEVERITY_LEVEL |-> "info", MAX_COMMENTS_PER_FILE |-> 1]
    /\ changes = "nonempty"
    /\ agents = <<>>
    /\ agent_timeout = 1
    /\ max_workers = <<>>
    /\ hangs = {}
    /\ \E n \in 1..MaxAgents : selected_agents = Selected(SelectedKeys(n))
    /\ enabled = {}
    /\ ctor_fails = {}
    /\ NoneResolved
    /\ NoneShared
    /\ NoneCollected
    /\ NoneAnalysed
    /\ futures = <<>>
    /\ yielded = <<>>
    /\ agent_results = <<>>
    /\ all_comments = <<>>
    /\ unique_comments = <<>>
    /\ report = NoReport
    /\ warnings = <<>>

ShareNext ==
    \/ Submit
    \/ \E i \in 1..MaxAgents : WorkerStart(i)
    \/ \E i \in 1..MaxAgents : TaskMutates(i)
    \/ \E i \in 1..MaxAgents : TaskReads(i)

ShareSpec == ShareInit /\ [][ShareNext]_vars

(***************************************************************************)
(* Reading a report.                                                       *)
(***************************************************************************)
LoopLeft == pc \in {"aggregate", "returned"} /\ Len(futures) > 0

Reported == pc = "returned" /\ Len(futures) > 0

\* the (file, severity) buckets of a files mapping, each with its entries
Buckets(files) ==
    UNION {{[file |-> files[i][1], severity |-> files[i][2][j][1],
             entries |-> files[i][2][j][2]] : j \in 1..Len(files[i][2])} :
           i \in 1..Len(files)}

\* one point per (entry, line) of a files mapping
Points(files) ==
    UNION {UNION {{[file |-> b.file, severity |-> b.severity,
                    agent |-> b.entries[k].agent,
                    comment |-> b.entries[k].comment,
                    line |-> b.entries[k].lines[m]] :
                        m \in 1..Len(b.entries[k].lines)} :
                  k \in 1..Len(b.entries)} :
           b \in Buckets(files)}

PointOf(c) ==
    [file |-> c.file, severity |-> c.severity, agent |-> c.agent,
     comment |-> c.comment, line |-> c.line]

\* task i ran longer than the wait future.result(timeout=...) allows
RanPastTimeout(i) == futures[i].elapsed > agent_timeout + TimeoutBuffer

IsTimeoutResult(r) ==
    r.success = FALSE /\ r.error = "TimeoutError" /\ r.comments = <<>>

(***************************************************************************)
(* C1: for every combination of task behaviours (returns, raises, never    *)
(* returns) the batch eventually returns a Report; a review that never     *)
(* returns does not keep the dispatcher waiting.                           *)
(* Checked under FairSpec; violated when a review hangs.                   *)
(***************************************************************************)
C1_BatchEventuallyReturns == <>(pc = "returned")

(***************************************************************************)
(* C2: a task whose execution has not completed within agent_timeout (the  *)
(* 5 second buffer of the wait included) gets a timeout AgentResult        *)
(* (success = False, timeout error, no comments); a task that completed    *)
(* in time keeps the AgentResult its own run produced.                     *)
(* Violated: the result of a task that ran past the timeout is its own.    *)
(***************************************************************************)
C2_TimeoutOutcome ==
    \A k \in 1..Len(agent_results) :
        IF RanPastTimeout(yielded[k])
        THEN IsTimeoutResult(agent_results[k])
        ELSE agent_results[k] = futures[yielded[k]].result

(***************************************************************************)
(* C3: when the dispatcher has left the collection loop, agent_results     *)
(* holds exactly one AgentResult per submitted agent (none lost, none      *)
(* duplicated), each the one produced by that agent's own execution and    *)
(* carrying that agent's name.                                             *)
(***************************************************************************)
C3_CompleteResultSet ==
    LoopLeft =>
        /\ Len(agent_results) = Len(agents)
        /\ Len(yielded) = Len(agents)
        /\ \A i \in 1..Len(agents) :
              Cardinality({k \in 1..Len(yielded) : yielded[k] = i}) = 1
        /\ \A k \in 1..Len(agent_results) :
              /\ agent_results[k] = futures[yielded[k]].result
              /\ agent_results[k].agent_name = agents[yielded[k]]

\* two agents, collected in the reverse of submission order, one failed
C3_Witness ==
    /\ LoopLeft
    /\ yielded = <<2, 1>>
    /\ agent_results[1].success
    /\ ~agent_results[2].success

(***************************************************************************)
(* C4: when exactly one task raises from review and the other n-1 return   *)
(* normally, the batch returns a Report whose summary shows the success    *)
(* ratio (n-1)/n and that holds every finding of the other tasks (up to    *)
(* deduplication, severity filtering and the bucket cap).                  *)
(* Violated: with no surviving finding the summary carries no ratio.       *)
(***************************************************************************)
OneRaisedOthersReturned ==
    /\ Cardinality({k \in 1..Len(agent_results) :
                        ~agent_results[k].success}) = 1
    /\ \A k \in 1..Len(agent_results) :
          ~agent_results[k].success =>
              agent_results[k].error \in ReviewErrors

\* finding c is in the report, or was deduplicated, filtered or cut off
PresentUpToAggregation(c) ==
    \/ PointOf(c) \in Points(report.files)
    \/ \E d \in Range(unique_comments) :
          DedupKey(d) = DedupKey(c) /\ d # c
    \/ c \notin Range(unique_comments)
          /\ ~KeepsSeverity(c.severity,
                            severity_order(settings.MIN_SEVERITY_LEVEL))
    \/ \E b \in Buckets(report.files) :
          /\ b.file = c.file /\ b.severity = c.severity
          /\ Len(b.entries) = settings.MAX_COMMENTS_PER_FILE

C4_FailureIsolation ==
    (Reported /\ OneRaisedOthersReturned) =>
        /\ report.summary.message.kind = "found"
        /\ report.summary.message.successful_agents = Len(agents) - 1
        /\ report.summary.message.total_agents = Len(agents)
        /\ \A k \in 1..Len(agent_results) :
              \A c \in Range(agent_results[k].comments) :
                  PresentUpToAggregation(c)

(***************************************************************************)
(* C5: every finding in the Report was returned by a task that completed:  *)
(* a task that failed or timed out contributes no finding, so with X timed *)
(* out and Y returning 2 findings no reported finding is attributed to X.  *)
(* Violated: a task that ran past the timeout is collected as successful   *)
(* and its findings are reported.                                          *)
(***************************************************************************)
CompletedInTime(i) ==
    futures[i].result.success /\ ~RanPastTimeout(i)

C5_OnlyCompletedContribute ==
    Reported =>
        \A p \in Points(report.files) :
            \E i \in 1..Len(futures) :
                /\ CompletedInTime(i)
                /\ \E c \in Range(futures[i].result.comments) :
                      PointOf(c) = p

(***************************************************************************)
(* Reference notions for the aggregation claims (sets and index sets, not  *)
(* the loops of the code).                                                 *)
(***************************************************************************)
\* the elements of seq at the indices in I, in index order
SubseqAt(seq, I) ==
    [k \in 1..Cardinality(I) |->
        seq[CHOOSE i \in I : Cardinality({j \in I : j < i}) = k - 1]]

\* indices at which a value of seq occurs for the first time
FirstSeenAt(seq) ==
    {i \in 1..Len(seq) : \A j \in 1..(i - 1) : seq[j] # seq[i]}

FirstSeen(seq) == SubseqAt(seq, FirstSeenAt(seq))

FindingKeys(comments) ==
    [i \in 1..Len(comments) |->
        [file |-> comments[i].file, line |-> comments[i].line,
         comment |-> comments[i].comment]]

IsDeduplicationOf(out, in) ==
    /\ \A a, b \in 1..Len(out) :
          a # b => FindingKeys(out)[a] # FindingKeys(out)[b]
    /\ out = SubseqAt(in, FirstSeenAt(FindingKeys(in)))

Floor == settings.MIN_SEVERITY_LEVEL

Cap == settings.MAX_COMMENTS_PER_FILE

AtOrAbove(floor) ==
    CASE floor = "critical" -> {"critical"}
      [] floor = "major" -> {"critical", "major"}
      [] floor = "minor" -> {"critical", "major", "minor"}

\* the aggregated findings of one (file, severity) bucket, in order
BucketFindings(f, sv) ==
    LET in(c) == c.file = f /\ c.severity = sv
    IN SelectSeq(unique_comments, in)

PairOf(x) == <<x.agent, x.comment>>

\* the (agent, comment) pairs of a bucket in first-seen order
BucketPairs(f, sv) ==
    LET bf == BucketFindings(f, sv)
    IN FirstSeen([i \in 1..Len(bf) |-> PairOf(bf[i])])

\* the line numbers of a pair in a bucket in first-seen order
PairLines(f, sv, pair) ==
    LET bf == BucketFindings(f, sv)
        of(c) == PairOf(c) = pair
        sel == SelectSeq(bf, of)
    IN FirstSeen([i \in 1..Len(sel) |-> sel[i].line])

EntriesOf(files, f, sv) ==
    {b.entries : b \in {x \in Buckets(files) :
                            x.file = f /\ x.severity = sv}}

(***************************************************************************)
(* C6: _deduplicate_comments returns a list in which no two findings share *)
(* the key (file, line, comment); it holds, for each key of the input,     *)
(* exactly the first finding with that key, in the order of the first      *)
(* occurrences.  Two identical critical tuples count as one critical.      *)
(***************************************************************************)
C6_Deduplication ==
    /\ IsDeduplicationOf(_deduplicate_comments(all_comments), all_comments)
    /\ (pc = "returned" /\ Floor = "info") =>
          /\ IsDeduplicationOf(unique_comments, all_comments)
          /\ report.summary.critical =
                Cardinality({i \in FirstSeenAt(FindingKeys(all_comments)) :
                                all_comments[i].severity = "critical"})

\* two agents report the same critical (file, line, text): one finding
C6_Witness ==
    /\ pc = "returned"
    /\ Floor = "info"
    /\ Len(all_comments) = 2
    /\ all_comments[1].severity = "critical"
    /\ all_comments[2].severity = "critical"
    /\ all_comments[1].agent # all_comments[2].agent
    /\ FindingKeys(all_comments)[1] = FindingKeys(all_comments)[2]
    /\ unique_comments = <<all_comments[1]>>
    /\ report.summary.critical = 1

(***************************************************************************)
(* C7: with a severity floor stricter than info, the aggregated findings   *)
(* are exactly the deduplicated findings at or above the floor (critical > *)
(* major > minor > info), and every retained finding lies in the same      *)
(* (file, severity) bucket, with the same entries, as without a floor.     *)
(***************************************************************************)
C7_SeverityFilter ==
    (pc = "returned" /\ Floor \in {"minor", "major", "critical"}) =>
        LET unique == _deduplicate_comments(all_comments)
            kept(c) == c.severity \in AtOrAbove(Floor)
            unfiltered == _structure_comments(unique, Cap)
        IN /\ unique_comments = SelectSeq(unique, kept)
           /\ \A c \in Range(unique_comments) :
                 /\ EntriesOf(report.files, c.file, c.severity) # {}
                 /\ EntriesOf(report.files, c.file, c.severity) =
                       EntriesOf(unfiltered, c.file, c.severity)

\* floor major: a minor or info finding is dropped, critical and major stay
C7_Witness ==
    /\ pc = "returned"
    /\ Floor = "major"
    /\ \E c \in Range(all_comments) : c.severity \in {"minor", "info"}
    /\ \E c \in Range(unique_comments) : c.severity = "major"
    /\ \E c \in Range(unique_comments) : c.severity = "critical"

(***************************************************************************)
(* C8: within one (file, severity) bucket the findings with the same       *)
(* (agent, comment) pair are merged into one entry whose lines are their   *)
(* line numbers in first-seen order (5 then 9 gives [5, 9]), and entries   *)
(* are in the order in which their first finding was seen.                 *)
(***************************************************************************)
C8_MergeCorrectness ==
    pc = "returned" =>
        \A b \in Buckets(report.files) :
            LET pairs == BucketPairs(b.file, b.severity)
            IN /\ \A k, m \in 1..Len(b.entries) :
                     k # m => PairOf(b.entries[k]) # PairOf(b.entries[m])
               /\ Len(b.entries) <= Len(pairs)
               /\ \A k \in 1..Len(b.entries) :
                     /\ PairOf(b.entries[k]) = pairs[k]
                     /\ b.entries[k].lines =
                           PairLines(b.file, b.severity, pairs[k])
               /\ Len(b.entries) < Cap => Len(b.entries) = Len(pairs)

\* lines 5 and 9 of one pair are merged next to another entry of the bucket
C8_Witness ==
    /\ pc = "returned"
    /\ \E b \in Buckets(report.files) :
          /\ Len(b.entries) = 2
          /\ \E k \in 1..2 : b.entries[k].lines = <<5, 9>>

(***************************************************************************)
(* C9: every (file, severity) bucket of a Report holds at most             *)
(* MAX_COMMENTS_PER_FILE entries; a bucket with more distinct entries than *)
(* the cap keeps exactly the first cap-many in first-seen order and a      *)
(* warning is logged for it; other buckets are complete and not warned.    *)
(***************************************************************************)
Overfull(f, sv) == Len(BucketPairs(f, sv)) > Cap

C9_BucketCap ==
    pc = "returned" =>
        /\ \A c \in Range(unique_comments) :
              EntriesOf(report.files, c.file, c.severity) # {}
        /\ \A b \in Buckets(report.files) :
              LET pairs == BucketPairs(b.file, b.severity)
              IN /\ Len(b.entries) <= Cap
                 /\ Len(b.entries) =
                       (IF Len(pairs) > Cap THEN Cap ELSE Len(pairs))
                 /\ \A k \in 1..Len(b.entries) :
                       PairOf(b.entries[k]) = pairs[k]
                 /\ Len(pairs) > Cap =>
                       [file |-> b.file, count |-> Len(pairs), cap |-> Cap]
                           \in Range(warnings)
        /\ Len(warnings) =
              Cardinality({b \in Buckets(report.files) :
                              Overfull(b.file, b.severity)})

\* three distinct entries under a cap of two: two are kept, one warning
C9_Witness ==
    /\ pc = "returned"
    /\ Cap = 2
    /\ \E b \in Buckets(report.files) :
          /\ Len(BucketPairs(b.file, b.severity)) = 3
          /\ Len(b.entries) = 2
    /\ Len(warnings) = 1

Entered == pc # "start"

EmptyReport(kind) ==
    /\ report.summary.total_comments = 0
    /\ report.summary.critical = 0
    /\ report.summary.major = 0
    /\ report.summary.minor = 0
    /\ report.summary.info = 0
    /\ report.summary.message.kind = kind
    /\ report.files = <<>>

NothingDispatched == futures = <<>> /\ pool = "none"

Constructible(name) == name \in AgentKeys /\ name \notin ctor_fails

InstancesOf(keys) == [i \in 1..Len(keys) |-> DictGet(AGENT_MAP, keys[i])]

ClaimedOrder ==
    <<"code_quality_agent", "logic_agent", "security_agent",
      "performance_agent", "readability_agent">>

IsEnabled(key) == key \in enabled

\* get_agents was called and returned a list
GetAgentsReturned ==
    /\ changes = "nonempty"
    /\ \/ pc \in {"returned", "collect"}
       \/ pc = "raised" /\ agents # <<>>

PoolSizeValid == max_workers = <<>> \/ max_workers[1] > 0

\* C11: when the parsed change set is empty the batch returns a Report with
\* zero findings, zero counts, no files and an explanatory message, and on
\* the way no agent is constructed, no review is invoked and no pool is
\* created.
C11_EmptyInputShortCircuit ==
    (Entered /\ changes = "empty") =>
        /\ pc = "returned"
        /\ EmptyReport("no_changes")
        /\ constructed = <<>>
        /\ NothingDispatched
        /\ raised = None

C11_Witness ==
    /\ pc = "returned"
    /\ changes = "empty"
    /\ selected_agents = Selected(<<"logic_agent", "security_agent">>)
    /\ ctor_fails = {}
    /\ enabled = AgentKeys

\* C12: when get_agents resolves no agent (every requested name unknown or
\* failing to construct, or every ENABLE flag false) the batch returns an
\* empty Report with an explanatory message, raises nothing and dispatches
\* nothing.
C12_EmptyTaskSet ==
    (/\ Entered
     /\ changes = "nonempty"
     /\ IF Truthy(selected_agents)
        THEN \A name \in Range(selected_agents.names) : ~Constructible(name)
        ELSE enabled = {})
    =>  /\ pc = "returned"
        /\ EmptyReport("no_agents")
        /\ raised = None
        /\ NothingDispatched

C12_Witness ==
    /\ pc = "returned"
    /\ changes = "nonempty"
    /\ selected_agents = Selected(<<"unknown_agent", "logic_agent">>)
    /\ "logic_agent" \in ctor_fails
    /\ enabled = AgentKeys
    /\ max_workers = <<>>

\* C13: for a non-empty requested list get_agents returns, in the order
\* given, one instance for each requested name that is an AGENT_MAP key and
\* whose constructor succeeds; unknown names and names whose constructor
\* raises are skipped, and no agent outside the requested list is
\* instantiated.
C13_ExplicitSelection ==
    (Entered /\ changes = "nonempty" /\ Truthy(selected_agents)) =>
        /\ GetAgentsReturned
        /\ agents = InstancesOf(SelectSeq(selected_agents.names,
                                          Constructible))
        /\ Range(constructed) \subseteq Range(selected_agents.names)

C13_Witness ==
    /\ pc = "collect"
    /\ selected_agents = Selected(<<"security_agent", "logic_agent">>)
    /\ ctor_fails = {}
    /\ enabled = {"readability_agent"}
    /\ Len(agents) = 2

\* C14: on every resolution path (explicit selection and default enabled
\* set) a task that cannot be constructed is excluded and the batch
\* proceeds with the remaining tasks: nothing is raised, and the resolved
\* agents are the constructible ones.
C14_ConfigErrorNonFatal ==
    (Entered /\ changes = "nonempty" /\ PoolSizeValid) =>
        /\ raised = None
        /\ agents = InstancesOf(SelectSeq(
                        IF Truthy(selected_agents)
                        THEN selected_agents.names
                        ELSE SelectSeq(ClaimedOrder, IsEnabled),
                        Constructible))

\* C15: when requested is None or the empty list get_agents returns exactly
\* the agents whose ENABLE flag is true, each once, in the order
\* code_quality, logic, security, performance, readability, whatever the
\* requested argument was.
C15_DefaultSelection ==
    (GetAgentsReturned /\ ~Truthy(selected_agents)) =>
        agents = InstancesOf(SelectSeq(ClaimedOrder, IsEnabled))

C15_Witness ==
    /\ pc = "collect"
    /\ selected_agents = Selected(<<>>)
    /\ enabled = {"readability_agent", "logic_agent", "code_quality_agent"}
    /\ Len(agents) = 3

\* C17: no fault of a task, of the timeout mechanism, of task resolution or
\* of the worker pool propagates out of run_multi_agent_review_parallel.
C17_NoFaultPropagates == raised = None /\ pc # "raised"


C18_ChangeSetIsolation ==
    \A j \in 1..Len(observed) :
        \A r \in 1..Len(observed[j]) :
            \A k \in Range(observed[j][r]) : k = j


\* the AgentResult list of the run in which the same tasks, with the same
\* outcomes, complete in submission order
SubmissionOrderResults == [i \in 1..Len(futures) |-> Collected(i)]

\* C19: two runs with the same changes, the same tasks and the same
\* per-task outcomes return structurally identical Reports whatever the
\* completion order: the Report of a run is the Report of the run whose
\* tasks complete in submission order.
C19_ReportDeterminism ==
    Reported =>
        report = BuildResponse(
                    Aggregated(Flatten(Successful(SubmissionOrderResults))),
                    SubmissionOrderResults)


\* C20: for every batch that reaches aggregation the summary message
\* carries the total finding count, the per-severity counts and the
\* successful/total task ratio, also when no finding is left.
C20_SummaryReportsHealth ==
    Reported =>
        LET m == report.summary.message
        IN /\ m.kind = "found"
           /\ m.total = Len(unique_comments)
           /\ \A sev \in Severities :
                 report.summary[sev] = CountSeverity(unique_comments, sev)
           /\ m.critical = report.summary.critical
           /\ m.major = report.summary.major
           /\ m.minor = report.summary.minor
           /\ m.info = report.summary.info
           /\ m.successful_agents =
                 Cardinality({k \in 1..Len(agent_results) :
                                 agent_results[k].error = None})
           /\ m.total_agents = Len(futures)

C22_NoRetry ==
    /\ Len(futures) \in {0, Len(agents)}
    /\ \A i \in 1..Len(futures) :
          /\ futures[i].invoked <= 1
          /\ futures[i].state # "pending" => futures[i].invoked = 1
          /\ LoopLeft => futures[i].invoked = 1

C22_Witness ==
    /\ pc = "returned"
    /\ Len(futures) = 2
    /\ futures[1].outcome.kind = "raise"
    /\ futures[1].invoked = 1
    /\ RanPastTimeout(2)
    /\ futures[2].invoked = 1

\* C23: when max_workers is not given the pool has one worker per resolved
\* task, so a task that is still queued always finds a free worker, whatever
\* the other tasks do (running, blocked for ever, finished); when
\* max_workers = k is given at most k tasks execute at any moment.
C23_FullParallelism ==
    Len(futures) > 0 =>
        /\ max_workers = <<>> =>
              /\ Workers = Len(agents)
              /\ \A i \in 1..Len(futures) :
                    futures[i].state = "pending" =>
                        Cardinality(Running) < Workers
        /\ max_workers # <<>> => Cardinality(Running) <= max_workers[1]

C23_Witness ==
    /\ max_workers = <<>>
    /\ Len(futures) = 2
    /\ 1 \in hangs
    /\ futures[1].state = "running"
    /\ futures[2].state = "finished"

\* number of findings the successful results before position k hold
RECURSIVE OffsetOf(_, _)
OffsetOf(results, k) ==
    IF k <= 1 THEN 0
    ELSE OffsetOf(results, k - 1)
         + (IF results[k - 1].success THEN Len(results[k - 1].comments)
            ELSE 0)

\* comments is the concatenation, in the order of results, of the findings
\* of the successful results, each kept contiguous and in its own order
IsFlatteningOf(comments, results) ==
    /\ Len(comments) = OffsetOf(results, Len(results) + 1)
    /\ \A k \in 1..Len(results) :
          results[k].success =>
              SubSeq(comments, OffsetOf(results, k) + 1,
                     OffsetOf(results, k) + Len(results[k].comments))
                = results[k].comments

\* the k-th AgentResult is the one of the k-th future yielded
ResultsFollowYields ==
    /\ Len(agent_results) = Len(yielded)
    /\ \A k \in 1..Len(yielded) :
          agent_results[k].agent_name = agents[yielded[k]]

\* C24 as stated: AgentResults are appended in the order their tasks
\* complete, and the flattened list is the concatenation of the successful
\* results' findings in that order.
C24_CompletionOrder ==
    /\ ResultsFollowYields
    /\ \A a, b \in 1..Len(yielded) :
          a < b => Rank(yielded[a]) < Rank(yielded[b])
    /\ LoopLeft => IsFlatteningOf(all_comments, agent_results)

\* C24 amended: AgentResults are appended in the order as_completed yields
\* the futures: the futures that had finished when the loop started come
\* first, in no particular order, the others follow in the order their
\* tasks complete; the flattened list is the concatenation of the
\* successful results' findings in collection order.
C24_CollectionOrder ==
    /\ ResultsFollowYields
    /\ \A a, b \in 1..Len(yielded) :
          a < b =>
              \/ yielded[a] \in waiter.finished
              \/ /\ yielded[b] \notin waiter.finished
                 /\ Rank(yielded[a]) < Rank(yielded[b])
    /\ LoopLeft => IsFlatteningOf(all_comments, agent_results)

C24_Witness ==
    /\ pc = "returned"
    /\ completed = <<1, 2>>
    /\ yielded = <<2, 1>>
    /\ waiter.finished = {1, 2}
    /\ Len(all_comments) = 3
    /\ agent_results[1].success /\ agent_results[2].success

\* every AgentResult the batch holds: collected ones and the ones of the
\* finished futures
HeldResults ==
    Range(agent_results) \cup {futures[i].result : i \in Finished}

\* C25: in every reachable state every AgentResult has
\* success = (error is None), and every AgentResult with an error has an
\* empty comments list.
C25_DiscardOnFailure ==
    \A r \in HeldResults :
        /\ r.success = (r.error = None)
        /\ r.error # None => r.comments = <<>>

C25_Witness ==
    /\ pc = "returned"
    /\ Len(agent_results) = 2
    /\ agent_results[1].error = "RuntimeError"
    /\ agent_results[2].error = None
    /\ Len(agent_results[2].comments) = 2

\* C26: merging never conflates distinct findings: every line of a merged
\* entry comes from a finding of the bucket with the entry's agent and the
\* entry's comment, and findings that differ in agent or in comment give
\* separate entries (as many entries as distinct (agent, comment) pairs, up
\* to the cap), whatever the agent and comment strings are.
C26_NoConflation ==
    pc = "returned" =>
        \A b \in Buckets(report.files) :
            LET bf == BucketFindings(b.file, b.severity)
                pairs == BucketPairs(b.file, b.severity)
            IN /\ Len(b.entries) =
                     (IF Len(pairs) > Cap THEN Cap ELSE Len(pairs))
               /\ \A k \in 1..Len(b.entries) :
                     \A l \in Range(b.entries[k].lines) :
                         \E c \in Range(bf) :
                             /\ PairOf(c) = PairOf(b.entries[k])
                             /\ c.line = l

Urgency(sv) ==
    CASE sv = "critical" -> 0
      [] sv = "major" -> 1
      [] sv = "minor" -> 2
      [] sv = "info" -> 3

\* C27: in every Report, within each file the severity buckets appear in
\* descending urgency (critical, major, minor, info), whatever the order of
\* arrival of the findings.
C27_SeverityRanked ==
    pc = "returned" =>
        \A i \in 1..Len(report.files) :
            LET severity_map == report.files[i][2]
            IN \A j, k \in 1..Len(severity_map) :
                  j < k => Urgency(severity_map[j][1])
                              < Urgency(severity_map[k][1])

\* C28: every merged entry under files[f][s] derives only from aggregated
\* findings with file f and severity s (its agent, comment and suggestion
\* are those of one of them, each of its lines is the line of one of them);
\* the file of every aggregated finding is a key of files and
\* its severity a key of files[file]; with a cap of at least 1 no file maps
\* to an empty severity map and no bucket is an empty list.
C28_GroupingSoundness ==
    pc = "returned" =>
        /\ \A b \in Buckets(report.files) :
              \A k \in 1..Len(b.entries) :
                  /\ \E c \in Range(unique_comments) :
                        /\ c.file = b.file
                        /\ c.severity = b.severity
                        /\ c.agent = b.entries[k].agent
                        /\ c.comment = b.entries[k].comment
                        /\ c.suggestion = b.entries[k].suggestion
                  /\ \A l \in Range(b.entries[k].lines) :
                        \E c \in Range(unique_comments) :
                            /\ c.file = b.file
                            /\ c.severity = b.severity
                            /\ c.line = l
        /\ \A c \in Range(unique_comments) :
              /\ DictHas(report.files, c.file)
              /\ DictHas(DictGet(report.files, c.file), c.severity)
        /\ Cap >= 1 =>
              \A i \in 1..Len(report.files) :
                  /\ report.files[i][2] # <<>>
                  /\ \A j \in 1..Len(report.files[i][2]) :
                        /\ report.files[i][2][j][2] # <<>>
                        /\ \A e \in Range(report.files[i][2][j][2]) :
                              e.lines # <<>>

C28_Witness ==
    /\ pc = "returned"
    /\ Len(report.files) = 2
    /\ \E i \in 1..2 : Len(report.files[i][2]) = 2
    /\ Len(unique_comments) = 3

\* the Report of run_multi_agent_review_parallel for the same agents and
\* the same per-task behaviour, its tasks completing in submission order
ParallelInOrder ==
    LET results == [i \in 1..Len(seq_outcomes) |->
                       run_agent_safe(agents[i], seq_outcomes[i], 0)]
    IN BuildResponse(Aggregated(Flatten(Successful(results))), results)

SequentialReturned ==
    /\ pc = "returned"
    /\ agents # <<>>
    /\ Len(seq_outcomes) = Len(agents)

\* C29: for the same changes, the same resolved tasks and the same per-task
\* behaviour the sequential variant returns the summary (counts, total,
\* message with the successful/total ratio) and the files of the parallel
\* variant whose tasks complete in submission order.
C29_SequentialEquivalent ==
    SequentialReturned =>
        /\ report.files = ParallelInOrder.files
        /\ report.summary = ParallelInOrder.summary

\* the findings that remain after deduplication and severity filtering
Remaining ==
    LET unique == SubseqAt(all_comments, FirstSeenAt(FindingKeys(all_comments)))
        kept(c) == \/ Floor \notin {"critical", "major", "minor"}
                   \/ c.severity \in AtOrAbove(Floor)
    IN SelectSeq(unique, kept)

\* C30: in every Report total_comments = critical + major + minor + info,
\* each severity count is the number of findings of that severity that
\* remain after deduplication and severity filtering, and an empty-review
\* Report has all five counts equal to 0.
C30_SummaryCounts ==
    pc = "returned" =>
        LET sm == report.summary
        IN /\ sm.total_comments = sm.critical + sm.major + sm.minor + sm.info
           /\ \A sev \in Severities :
                 sm[sev] = Cardinality({i \in 1..Len(Remaining) :
                                           Remaining[i].severity = sev})
           /\ sm.total_comments = Len(Remaining)
           /\ sm.message.kind \in {"no_changes", "no_agents"} =>
                 /\ sm.total_comments = 0
                 /\ \A sev \in Severities : sm[sev] = 0

C30_Witness ==
    /\ pc = "returned"
    /\ Floor = "major"
    /\ Len(all_comments) = 4
    /\ Len(Remaining) = 1
    /\ report.summary.message.kind = "found"
    /\ report.summary.critical = 1
    /\ report.summary.minor = 0
    /\ report.summary.total_comments = 1

(***************************************************************************)
(* C31: in every Report the sum over all merged entries of the length of   *)
(* lines is at most summary.total_comments, and equals it exactly when no  *)
(* bucket was truncated by the cap (every counted finding is represented   *)
(* by exactly one (entry, line) pair); when a bucket is truncated the      *)
(* summary still counts the dropped findings.                              *)
(***************************************************************************)
\* one element per (entry, line) pair of a files mapping
ListedLines(files) ==
    UNION {UNION {UNION {{<<i, j, k, m>> :
                            m \in 1..Len(files[i][2][j][2][k].lines)} :
                         k \in 1..Len(files[i][2][j][2])} :
                  j \in 1..Len(files[i][2])} :
           i \in 1..Len(files)}

\* the buckets whose merged list is longer than the cap
TruncatedBuckets ==
    {b \in Buckets(report.files) :
        Truncates(MergedBucket(BucketFindings(b.file, b.severity)), Cap)}

C31_SummaryAgreesWithFiles ==
    pc = "returned" =>
        LET listed == Cardinality(ListedLines(report.files))
            total == report.summary.total_comments
        IN /\ total = Len(unique_comments)
           /\ listed <= total
           /\ TruncatedBuckets = {} <=> listed = total

(***************************************************************************)
(* C32: no qualifying finding is lost to a lower-severity duplicate: for   *)
(* every key (file, line, comment) for which some successful task returned *)
(* a finding with severity at or above the configured floor, the Report    *)
(* (absent cap truncation) contains an entry for that comment in that file *)
(* listing that line, whatever other findings with the same key and        *)
(* whatever completion order occurred.                                     *)
(***************************************************************************)
Qualifies(c) ==
    \/ Floor \notin {"critical", "major", "minor"}
    \/ c.severity \in AtOrAbove(Floor)

ListedIn(files, c) ==
    \E b \in Buckets(files) :
        /\ b.file = c.file
        /\ \E k \in 1..Len(b.entries) :
              /\ b.entries[k].comment = c.comment
              /\ c.line \in Range(b.entries[k].lines)

C32_NoQualifyingFindingLost ==
    (pc = "returned" /\ TruncatedBuckets = {}) =>
        \A c \in Range(all_comments) : Qualifies(c) => ListedIn(report.files, c)

(***************************************************************************)
(* The orchestrator at rest: the specifications of LLMAgent's methods and  *)
(* of parse_diff leave it as it is.                                        *)
(***************************************************************************)
OrchestratorIdle ==
    /\ pc = "idle"
    /\ settings = [MIN_SEVERITY_LEVEL |-> "info", MAX_COMMENTS_PER_FILE |-> 2]
    /\ changes = "nonempty"
    /\ agents = <<>>
    /\ agent_timeout = 1
    /\ max_workers = <<>>
    /\ hangs = {}
    /\ selected_agents = NotSelected
    /\ enabled = {}
    /\ ctor_fails = {}
    /\ NoneResolved
    /\ NoneShared
    /\ NoneCollected
    /\ futures = <<>>
    /\ yielded = <<>>
    /\ agent_results = <<>>
    /\ all_comments = <<>>
    /\ unique_comments = <<>>
    /\ report = NoReport
    /\ warnings = <<>>

(***************************************************************************)
(* LLMAgent.review (app/agents/llm_base.py): the changes are grouped by    *)
(* file, files that need no review are skipped, and every other file is    *)
(* analysed in batches of settings.BATCH_SIZE changes.                     *)
(***************************************************************************)
MaxChanges == 3
MaxBatch == 2

ReviewFiles == {"a.py", "b.py", "yarn.lock"}

ParsedChange(file_path, new_line_no, content) ==
    [file_path |-> file_path, new_line_no |-> new_line_no,
     content |-> content]

\* lists of changes: the k-th change is on line k of its file
ChangeLists ==
    UNION {{[k \in 1..n |-> ParsedChange(fs[k], k, <<"p">>)] :
               fs \in [1..n -> ReviewFiles]} : n \in 0..MaxChanges}

RECURSIVE group_changes_by_file(_, _)
group_changes_by_file(changes_, grouped_) ==
    IF changes_ = <<>> THEN grouped_
    ELSE LET change == Head(changes_)
             g == IF ~DictHas(grouped_, change.file_path)
                  THEN DictSet(grouped_, change.file_path, <<>>)
                  ELSE grouped_
         IN group_changes_by_file(
                Tail(changes_),
                DictSet(g, change.file_path,
                        Append(DictGet(g, change.file_path), change)))

\* of the paths of the model, yarn.lock is the one that holds a skip pattern
should_skip_file(file_path) == file_path \in {"yarn.lock"}

\* batch = file_changes[i:i + batch_size]
BatchAt(file_changes, i, batch_size) ==
    SubSeq(file_changes, i + 1,
           IF i + batch_size < Len(file_changes)
           THEN i + batch_size ELSE Len(file_changes))

\* the next i of range(0, len(file_changes), batch_size), or the next file
NextBatch(cur, n, batch_size) ==
    IF cur.i + batch_size < n
    THEN [file |-> cur.file, i |-> cur.i + batch_size]
    ELSE [file |-> cur.file + 1, i |-> 0]

\* mutant: an exception ends the batches of the file
ExceptContinue_Break(cur, n, batch_size) == [file |-> cur.file + 1, i |-> 0]

\* except Exception: ... continue
ExceptContinue(cur, n, batch_size) == NextBatch(cur, n, batch_size)

\* what _analyze_batch can do with a batch: raise (the provider call failed
\* after its retries), or return the comments parsed from the response,
\* which carry the file path of the batch and a line the response names
AnalyzeOutcomes(batch, file_path) ==
    {[kind |-> "raise", comments |-> <<>>, error |-> "APIError"],
     [kind |-> "return", comments |-> <<>>, error |-> None],
     [kind |-> "return",
      comments |-> <<ReviewComment(file_path, batch[1].new_line_no, "major",
                                   <<"l", "g">>, <<"x">>, NoSuggestion)>>,
      error |-> None]}

\* if not changes: return []; grouped = group_changes_by_file(changes)
ReviewEnter ==
    /\ review_pc = "called"
    /\ IF review_changes = <<>>
       THEN /\ review_pc' = "returned"
            /\ UNCHANGED grouped
       ELSE /\ review_pc' = "loop"
            /\ grouped' = group_changes_by_file(review_changes, <<>>)
    /\ UNCHANGED <<orchestrator_vars, llm_settings, review_changes, cursor,
                   analysed, found, gemini_vars, retry_vars, parse_vars>>

\* if should_skip_file(file_path): continue
ReviewSkipFile ==
    /\ review_pc = "loop"
    /\ cursor.file <= Len(grouped)
    /\ should_skip_file(grouped[cursor.file][1])
    /\ cursor' = [file |-> cursor.file + 1, i |-> 0]
    /\ UNCHANGED <<orchestrator_vars, llm_settings, review_pc, review_changes,
                   grouped, analysed, found, gemini_vars, retry_vars,
                   parse_vars>>

\* one iteration of "for i in range(0, len(file_changes), batch_size)"
ReviewBatch ==
    /\ review_pc = "loop"
    /\ cursor.file <= Len(grouped)
    /\ ~should_skip_file(grouped[cursor.file][1])
    /\ LET file_path == grouped[cursor.file][1]
           file_changes == grouped[cursor.file][2]
           batch_size == llm_settings.BATCH_SIZE
           batch == BatchAt(file_changes, cursor.i, batch_size)
       IN \E outcome \in AnalyzeOutcomes(batch, file_path) :
             /\ analysed' = Append(analysed,
                                   [file_path |-> file_path, batch |-> batch,
                                    outcome |-> outcome])
             /\ IF outcome.kind = "return"
                THEN /\ found' = found \o outcome.comments
                     /\ cursor' = NextBatch(cursor, Len(file_changes),
                                            batch_size)
                ELSE /\ found' = found
                     /\ cursor' = ExceptContinue(cursor, Len(file_changes),
                                                 batch_size)
    /\ UNCHANGED <<orchestrator_vars, llm_settings, review_pc, review_changes,
                   grouped, gemini_vars, retry_vars, parse_vars>>

\* return all_comments
ReviewReturn ==
    /\ review_pc = "loop"
    /\ cursor.file > Len(grouped)
    /\ review_pc' = "returned"
    /\ UNCHANGED <<orchestrator_vars, llm_settings, review_changes, grouped,
                   cursor, analysed, found, gemini_vars, retry_vars,
                   parse_vars>>

ReviewInit ==
    /\ OrchestratorIdle
    /\ llm_settings \in [BATCH_SIZE : 1..MaxBatch, MAX_RETRIES : {3},
                         LLM_PROVIDER : {"gemini"}]
    /\ review_pc = "called"
    /\ review_changes \in ChangeLists
    /\ grouped = <<>>
    /\ cursor = [file |-> 1, i |-> 0]
    /\ analysed = <<>>
    /\ found = <<>>
    /\ NoGeminiCall
    /\ NoLlmCall
    /\ NoParseCall

ReviewNext == ReviewEnter \/ ReviewSkipFile \/ ReviewBatch \/ ReviewReturn

ReviewSpec == ReviewInit /\ [][ReviewNext]_vars

(***************************************************************************)
(* C33: LLMAgent.review batch isolation: for every file that is not        *)
(* skipped, every change is passed to _analyze_batch exactly once, in      *)
(* consecutive in-order batches of at most BATCH_SIZE changes; an          *)
(* exception while analysing one batch discards only that batch's          *)
(* findings, all later batches and files are still analysed, and review    *)
(* itself returns normally with the findings of the batches that           *)
(* succeeded.                                                              *)
(***************************************************************************)
\* the calls of _analyze_batch for one file, in order
CallsFor(f) ==
    LET of(a) == a.file_path = f
    IN SelectSeq(analysed, of)

RECURSIVE BatchesJoined(_)
BatchesJoined(calls) ==
    IF calls = <<>> THEN <<>>
    ELSE Head(calls).batch \o BatchesJoined(Tail(calls))

\* the findings of the calls that returned, in call order
RECURSIVE FindingsOfSucceeded(_)
FindingsOfSucceeded(calls) ==
    IF calls = <<>> THEN <<>>
    ELSE (IF Head(calls).outcome.kind = "return"
          THEN Head(calls).outcome.comments ELSE <<>>)
         \o FindingsOfSucceeded(Tail(calls))

ChangesOf(f) ==
    LET of(c) == c.file_path = f
    IN SelectSeq(review_changes, of)

C33_BatchIsolation ==
    review_pc = "returned" =>
        /\ \A f \in ReviewFiles :
              IF should_skip_file(f)
              THEN CallsFor(f) = <<>>
              ELSE BatchesJoined(CallsFor(f)) = ChangesOf(f)
        /\ \A k \in 1..Len(analysed) :
              /\ Len(analysed[k].batch) >= 1
              /\ Len(analysed[k].batch) <= llm_settings.BATCH_SIZE
        /\ found = FindingsOfSucceeded(analysed)

\* the first batch of a.py raised; its second batch and b.py were analysed
\* and their findings are returned
C33_Witness ==
    /\ review_pc = "returned"
    /\ Len(analysed) = 3
    /\ analysed[1].file_path = "a.py"
    /\ analysed[1].outcome.kind = "raise"
    /\ analysed[2].file_path = "a.py"
    /\ analysed[3].file_path = "b.py"
    /\ Len(found) = 2
    /\ found[1].line = analysed[2].batch[1].new_line_no
    /\ found[2].file = "b.py"

(***************************************************************************)
(* LLMAgent._call_gemini (app/agents/llm_base.py): one generate_content    *)
(* call per attempt; a rate-limited attempt rotates to the next API key    *)
(* and calls _call_gemini again with retry_count + 1.  The recursive call  *)
(* is the last thing its caller does, so the frames are one loop.          *)
(***************************************************************************)
MaxKeys == 3
MaxCalls == 3

\* settings.get_gemini_keys(): n distinct keys
GeminiKeys(n) == [i \in 1..n |-> <<"key", i>>]

EmptyIssues == [kind |-> "return", value |-> "{\"issues\": []}"]

\* max_rotation_attempts = len(self.gemini_api_keys)
max_rotation_attempts == Len(gemini_api_keys)

\* mutant: one more retry than there are keys
MayRetry_OneMore(count) == count < max_rotation_attempts

\* if retry_count < max_rotation_attempts - 1
MayRetry(count) == count + 1 < max_rotation_attempts

\* _rotate_gemini_key: False when there is a single key, otherwise the index
\* moves to the next key, cyclically
_rotate_gemini_key ==
    IF Len(gemini_api_keys) <= 1
    THEN [rotated |-> FALSE, index |-> current_key_index]
    ELSE [rotated |-> TRUE,
          index |-> (current_key_index + 1) % Len(gemini_api_keys)]

\* the key self.client was configured with
current_api_key == gemini_api_keys[current_key_index + 1]

Attempt(outcome) ==
    [index |-> current_key_index, key |-> current_api_key,
     outcome |-> outcome]

\* the agent's _call_gemini is called (retry_count = 0)
GeminiCall ==
    /\ gemini_pc \in {"ready", "returned"}
    /\ gemini_calls < MaxCalls
    /\ gemini_calls' = gemini_calls + 1
    /\ gemini_pc' = "try"
    /\ retry_count' = 0
    /\ gemini_attempts' = <<>>
    /\ gemini_result' = NoResult
    /\ UNCHANGED <<orchestrator_vars, llm_settings, review_vars,
                   gemini_api_keys, current_key_index, retry_vars,
                   parse_vars>>

\* generate_content answers: a text, nothing, or an exception other than
\* ResourceExhausted
GeminiResponds ==
    /\ gemini_pc = "try"
    /\ \E outcome \in {"text", "empty", "Exception"} :
          /\ gemini_attempts' = Append(gemini_attempts, Attempt(outcome))
          /\ gemini_result' =
                IF outcome = "text"
                THEN [kind |-> "return", value |-> "cleaned_text"]
                ELSE EmptyIssues
    /\ gemini_pc' = "returned"
    /\ UNCHANGED <<orchestrator_vars, llm_settings, review_vars, gemini_calls,
                   gemini_api_keys, current_key_index, retry_count,
                   retry_vars, parse_vars>>

\* generate_content raises ResourceExhausted
GeminiRateLimited ==
    /\ gemini_pc = "try"
    /\ gemini_attempts' =
          Append(gemini_attempts, Attempt("ResourceExhausted"))
    /\ IF MayRetry(retry_count) /\ _rotate_gemini_key.rotated
       THEN /\ current_key_index' = _rotate_gemini_key.index
            /\ retry_count' = retry_count + 1
            /\ UNCHANGED <<gemini_pc, gemini_result>>
       ELSE /\ gemini_result' = EmptyIssues
            /\ gemini_pc' = "returned"
            /\ UNCHANGED <<current_key_index, retry_count>>
    /\ UNCHANGED <<orchestrator_vars, llm_settings, review_vars, gemini_calls,
                   gemini_api_keys, retry_vars, parse_vars>>

\* the agent as LLMAgent.__init__ leaves it: first key, index 0
GeminiInit ==
    /\ OrchestratorIdle
    /\ llm_settings = DefaultLlmSettings
    /\ NoReviewCall
    /\ gemini_pc = "ready"
    /\ gemini_calls = 0
    /\ \E n \in 1..MaxKeys : gemini_api_keys = GeminiKeys(n)
    /\ current_key_index = 0
    /\ retry_count = 0
    /\ gemini_attempts = <<>>
    /\ gemini_result = NoResult
    /\ NoLlmCall
    /\ NoParseCall

GeminiNext == GeminiCall \/ GeminiResponds \/ GeminiRateLimited

GeminiSpec == GeminiInit /\ [][GeminiNext]_vars

(***************************************************************************)
(* C34: Gemini key rotation terminates: with n configured keys, a single   *)
(* _call_gemini call in which every attempt is rate-limited makes at most  *)
(* n API attempts, uses each key at most once (advancing current_key_index *)
(* by one modulo n per rotation), then returns the empty-issues JSON and   *)
(* never raises; with n = 1 it makes exactly one attempt.                  *)
(***************************************************************************)
AllRateLimited ==
    \A k \in 1..Len(gemini_attempts) :
        gemini_attempts[k].outcome = "ResourceExhausted"

C34_KeyRotationTerminates ==
    LET n == Len(gemini_api_keys)
    IN /\ gemini_result.kind \in {"none", "return"}
       /\ AllRateLimited =>
             /\ Len(gemini_attempts) <= n
             /\ \A a, b \in 1..Len(gemini_attempts) :
                   a # b => gemini_attempts[a].key # gemini_attempts[b].key
             /\ \A k \in 1..(Len(gemini_attempts) - 1) :
                   gemini_attempts[k + 1].index =
                       (gemini_attempts[k].index + 1) % n
             /\ gemini_pc = "try" => Len(gemini_attempts) < n
             /\ (gemini_pc = "returned" /\ gemini_attempts # <<>>) =>
                   /\ gemini_result = EmptyIssues
                   /\ Len(gemini_attempts) = n

\* a second call that starts on the second of three keys and finds all
\* three rate-limited
C34_Witness ==
    /\ gemini_pc = "returned"
    /\ Len(gemini_api_keys) = 3
    /\ gemini_calls = 2
    /\ AllRateLimited
    /\ Len(gemini_attempts) = 3
    /\ gemini_attempts[1].index = 1
    /\ gemini_attempts[3].index = 0
    /\ gemini_result = EmptyIssues

(***************************************************************************)
(* LLMAgent._call_llm (app/agents/llm_base.py) under its retry decorator:  *)
(* stop_after_attempt(MAX_RETRIES), retry_if_exception_type of the three   *)
(* API errors, reraise=True.  After a failed attempt the decorator asks    *)
(* first whether the exception is one it retries, then whether to stop.    *)
(***************************************************************************)
MaxRetries == 3

\* retry_if_exception_type((APITimeoutError, RateLimitError, APIError))
RetriedErrors == {"APITimeoutError", "RateLimitError", "APIError"}

\* what the provider call can do: _call_openai returns the content or the
\* empty-issues JSON (empty response, unexpected exception) and re-raises
\* the three API errors; _call_gemini always returns
ProviderOutcomes(provider) ==
    {[kind |-> "return", value |-> v, error |-> None] :
        v \in {"content", EmptyIssues.value}}
    \cup (IF provider = "openai"
          THEN {[kind |-> "raise", value |-> None, error |-> e] :
                   e \in RetriedErrors}
          ELSE {})

\* mutant: the decorator stops one attempt later
stop_after_attempt_OneLate(n) == n > llm_settings.MAX_RETRIES

\* stop=stop_after_attempt(settings.MAX_RETRIES)
stop_after_attempt(n) == n >= llm_settings.MAX_RETRIES

\* the provider call of this attempt returns: _call_llm returns its value
LlmReturns ==
    /\ llm_pc = "try"
    /\ \E outcome \in ProviderOutcomes(llm_settings.LLM_PROVIDER) :
          /\ outcome.kind = "return"
          /\ llm_attempts' = Append(llm_attempts, outcome)
          /\ llm_result' = [kind |-> "return", value |-> outcome.value]
    /\ llm_pc' = "returned"
    /\ UNCHANGED <<orchestrator_vars, llm_settings, review_vars, gemini_vars,
                   attempt_number, parse_vars>>

\* the provider call of this attempt raises: retried after a wait, unless
\* the exception is not a retried one or the attempts are used up, and
\* then it is raised as it is (reraise=True)
LlmFails ==
    /\ llm_pc = "try"
    /\ \E outcome \in ProviderOutcomes(llm_settings.LLM_PROVIDER) :
          /\ outcome.kind = "raise"
          /\ llm_attempts' = Append(llm_attempts, outcome)
          /\ IF outcome.error \in RetriedErrors
                /\ ~stop_after_attempt(attempt_number)
             THEN /\ attempt_number' = attempt_number + 1
                  /\ UNCHANGED <<llm_pc, llm_result>>
             ELSE /\ llm_result' = [kind |-> "raise", value |-> outcome.error]
                  /\ llm_pc' = "raised"
                  /\ UNCHANGED attempt_number
    /\ UNCHANGED <<orchestrator_vars, llm_settings, review_vars, gemini_vars,
                   parse_vars>>

\* _call_llm(prompt) is called: the first attempt is about to be made
LlmInit ==
    /\ OrchestratorIdle
    /\ llm_settings \in [BATCH_SIZE : {10}, MAX_RETRIES : 1..MaxRetries,
                         LLM_PROVIDER : {"openai", "gemini"}]
    /\ NoReviewCall
    /\ NoGeminiCall
    /\ llm_pc = "try"
    /\ attempt_number = 1
    /\ llm_attempts = <<>>
    /\ llm_result = NoResult
    /\ NoParseCall

LlmNext == LlmReturns \/ LlmFails

LlmSpec == LlmInit /\ [][LlmNext]_vars

(***************************************************************************)
(* C38: bounded LLM retries: for one prompt, _call_llm invokes the         *)
(* provider call at most MAX_RETRIES times, retries only after             *)
(* APITimeoutError, RateLimitError or APIError, and after the last failed  *)
(* attempt re-raises that error instead of retrying again or returning a   *)
(* result.                                                                 *)
(***************************************************************************)
LastAttempt == llm_attempts[Len(llm_attempts)]

C38_BoundedRetries ==
    LET m == llm_settings.MAX_RETRIES
    IN /\ Len(llm_attempts) <= m
       /\ \A k \in 1..(Len(llm_attempts) - 1) :
             /\ llm_attempts[k].kind = "raise"
             /\ llm_attempts[k].error \in RetriedErrors
       /\ (Len(llm_attempts) = m /\ LastAttempt.kind = "raise") =>
             /\ llm_pc = "raised"
             /\ llm_result = [kind |-> "raise", value |-> LastAttempt.error]
       /\ llm_pc = "raised" => Len(llm_attempts) = m
       /\ llm_pc = "returned" =>
             /\ LastAttempt.kind = "return"
             /\ llm_result = [kind |-> "return", value |-> LastAttempt.value]

\* three failed attempts under MAX_RETRIES = 3: the last error is raised
C38_Witness ==
    /\ llm_pc = "raised"
    /\ llm_settings.MAX_RETRIES = 3
    /\ Len(llm_attempts) = 3
    /\ llm_attempts[1].error = "APITimeoutError"
    /\ llm_attempts[2].error = "RateLimitError"
    /\ llm_attempts[3].error = "APIError"
    /\ llm_result.value = "APIError"

(***************************************************************************)
(* parse_diff (app/diff_parser.py).  The diff text is the list of its      *)
(* lines (diff_text.split('\n')), a line is a tuple of one-character       *)
(* strings, and the string methods the parser calls are computed on them.  *)
(***************************************************************************)
MaxLines == 4

\* line.startswith(prefix)
StartsWith(line, prefix) ==
    /\ Len(line) >= Len(prefix)
    /\ SubSeq(line, 1, Len(prefix)) = prefix

\* sub in line
Contains(line, sub) ==
    \E i \in 0..(Len(line) - Len(sub)) :
        SubSeq(line, i + 1, i + Len(sub)) = sub

IsSpace(ch) == ch = " "

\* line.split(): the maximal runs of characters that are not whitespace
RECURSIVE SplitLoop(_, _, _)
SplitLoop(line, word, parts) ==
    IF line = <<>>
    THEN (IF word = <<>> THEN parts ELSE Append(parts, word))
    ELSE IF IsSpace(Head(line))
    THEN SplitLoop(Tail(line), <<>>,
                   IF word = <<>> THEN parts ELSE Append(parts, word))
    ELSE SplitLoop(Tail(line), Append(word, Head(line)), parts)

Split(line) == SplitLoop(line, <<>>, <<>>)

\* s.replace(ch, '')
Remove(s, ch) ==
    LET keep(c) == c # ch
    IN SelectSeq(s, keep)

\* s.split(',')[0]
RECURSIVE BeforeComma(_)
BeforeComma(s) ==
    IF s = <<>> \/ Head(s) = "," THEN <<>>
    ELSE <<Head(s)>> \o BeforeComma(Tail(s))

Digits == <<"0", "1", "2", "3", "4", "5", "6", "7", "8", "9">>

RECURSIVE DecimalValue(_, _)
DecimalValue(s, acc) ==
    IF s = <<>> THEN acc
    ELSE LET digit == (CHOOSE i \in 1..10 : Digits[i] = Head(s)) - 1
         IN DecimalValue(Tail(s), 10 * acc + digit)

\* int(s): a signed decimal numeral, ValueError otherwise
int(s) ==
    LET IsDigits(t) ==
            t # <<>> /\ \A i \in 1..Len(t) : t[i] \in Range(Digits)
    IN IF IsDigits(s) THEN [ok |-> TRUE, value |-> DecimalValue(s, 0)]
       ELSE IF s # <<>> /\ Head(s) \in {"+", "-"} /\ IsDigits(Tail(s))
       THEN [ok |-> TRUE,
             value |-> IF Head(s) = "-" THEN 0 - DecimalValue(Tail(s), 0)
                       ELSE DecimalValue(Tail(s), 0)]
       ELSE [ok |-> FALSE, value |-> 0]

\* not diff_text or not diff_text.strip()
IsBlankText(lines) ==
    \A i \in 1..Len(lines) : \A j \in 1..Len(lines[i]) : IsSpace(lines[i][j])

\* normalize_diff: a line that starts with @@ and has no second @@ gets one
\* appended; every other line is kept as it is
NormalizeLine(line) ==
    IF StartsWith(line, <<"d", "i", "f", "f", " ", "-", "-", "g", "i", "t">>)
    THEN line
    ELSE IF StartsWith(line, <<"-", "-", "-">>)
            \/ StartsWith(line, <<"+", "+", "+">>)
    THEN line
    ELSE IF StartsWith(line, <<"@", "@">>)
    THEN (IF Contains(SubSeq(line, 3, Len(line)), <<"@", "@">>)
          THEN line
          ELSE line \o <<" ", "@", "@">>)
    ELSE line

normalize_diff(lines) == [i \in 1..Len(lines) |-> NormalizeLine(lines[i])]

\* parse_diff_fallback before its loop: current_file = None (the empty
\* tuple, which is as falsy as None), current_line_no = 0, in_hunk = False
FallbackStart ==
    [changes |-> <<>>, current_file |-> <<>>, current_line_no |-> 0,
     in_hunk |-> FALSE]

\* the branch "if line.startswith('+++')"
FileHeader(st, line) ==
    LET parts == Split(line)
    IN IF Len(parts) >= 2
       THEN LET file_path == parts[2]
            IN [st EXCEPT !.current_file =
                   IF StartsWith(file_path, <<"b", "/">>)
                   THEN SubSeq(file_path, 3, Len(file_path))
                   ELSE file_path]
       ELSE st

\* the branch "elif line.startswith('@@')": the start of the new file's
\* range is read; a ValueError sets current_line_no = 0 and changes nothing
\* else
HunkHeader(st, line) ==
    LET parts == Split(line)
    IN IF Len(parts) >= 3
       THEN LET new_lines == Remove(parts[3], "+")
                n == IF Contains(new_lines, <<",">>)
                     THEN int(BeforeComma(new_lines))
                     ELSE int(new_lines)
            IN IF n.ok
               THEN [st EXCEPT !.current_line_no = n.value, !.in_hunk = TRUE]
               ELSE [st EXCEPT !.current_line_no = 0]
       ELSE st

\* mutant: an added line is emitted whatever the file and the line number
AddedLine_NoGuard(st, line) ==
    [st EXCEPT !.changes = Append(st.changes,
                                  ParsedChange(st.current_file,
                                               st.current_line_no,
                                               Tail(line))),
               !.current_line_no = st.current_line_no + 1]

\* the branch for an added line of a hunk: emitted when a file is known and
\* the line number is positive, counted in any case
AddedLine(st, line) ==
    LET emitted == IF st.current_file # <<>> /\ st.current_line_no > 0
                   THEN Append(st.changes,
                               ParsedChange(st.current_file,
                                            st.current_line_no,
                                            Tail(line)))
                   ELSE st.changes
    IN [st EXCEPT !.changes = emitted,
                  !.current_line_no = st.current_line_no + 1]

\* one iteration of "for line in lines"
FallbackStep(st, line) ==
    IF StartsWith(line, <<"+", "+", "+">>) THEN FileHeader(st, line)
    ELSE IF StartsWith(line, <<"@", "@">>) THEN HunkHeader(st, line)
    ELSE IF st.in_hunk /\ StartsWith(line, <<"+">>)
            /\ ~StartsWith(line, <<"+", "+", "+">>)
    THEN AddedLine(st, line)
    ELSE IF st.in_hunk
            /\ (StartsWith(line, <<" ">>) \/ StartsWith(line, <<"-">>))
    THEN (IF ~StartsWith(line, <<"-">>)
          THEN [st EXCEPT !.current_line_no = st.current_line_no + 1]
          ELSE st)
    ELSE st

RECURSIVE FallbackLoop(_, _)
FallbackLoop(lines, st) ==
    IF lines = <<>> THEN st
    ELSE FallbackLoop(Tail(lines), FallbackStep(st, Head(lines)))

parse_diff_fallback(lines) == FallbackLoop(lines, FallbackStart).changes

\* the lines a diff text is made of
DiffLine ==
    [FileHeaderA |-> <<"+", "+", "+", " ", "b", "/", "a">>,
     FileHeaderC |-> <<"+", "+", "+", " ", "c">>,
     FileHeaderBare |-> <<"+", "+", "+">>,
     HunkHeaderAt2 |->
        <<"@", "@", " ", "-", "1", " ", "+", "2", ",", "3", " ", "@", "@">>,
     HunkHeaderBad |-> <<"@", "@", " ", "-", "1", " ", "+", "x">>,
     AddedP |-> <<"+", "p">>,
     RemovedQ |-> <<"-", "q">>,
     ContextBlank |-> <<" ">>,
     EmptyLine |-> <<>>]

LineChoices == {DiffLine[kind] : kind \in DOMAIN DiffLine}

DiffTexts == UNION {[1..n -> LineChoices] : n \in 1..MaxLines}

\* what PatchSet(diff_text) hands to the loop of parse_diff: the lines of
\* the hunks of the patched files, in order
PatchLine(path, is_added, target_line_no, text) ==
    [path |-> path, is_added |-> is_added,
     target_line_no |-> target_line_no, text |-> text]

Patches ==
    {<<>>,
     <<PatchLine(<<"a">>, TRUE, <<2>>, DiffLine.AddedP),
       PatchLine(<<"a">>, FALSE, <<3>>, DiffLine.ContextBlank)>>,
     <<PatchLine(<<"a">>, FALSE, <<>>, DiffLine.RemovedQ),
       PatchLine(<<"a">>, TRUE, <<>>, DiffLine.AddedP)>>}

\* the loops over patch, patched_file and hunk: one change per added line,
\* new_line_no = line.target_line_no or 0, content without the leading '+'
AddedOf(patch) ==
    LET added(l) == l.is_added
        sel == SelectSeq(patch, added)
    IN [i \in 1..Len(sel) |->
           ParsedChange(sel[i].path,
                        IF sel[i].target_line_no = <<>> THEN 0
                        ELSE sel[i].target_line_no[1],
                        Tail(sel[i].text))]

\* if not diff_text or not diff_text.strip(): return []
ParseEmpty ==
    /\ parse_pc = "called"
    /\ IsBlankText(diff_text)
    /\ parsed' = [path |-> "empty", result |-> <<>>, raised |-> None]
    /\ parse_pc' = "returned"
    /\ UNCHANGED <<orchestrator_vars, llm_vars, diff_text>>

\* PatchSet(normalize_diff(diff_text)) succeeds: the added lines of the
\* patch are returned
ParseStrict ==
    /\ parse_pc = "called"
    /\ ~IsBlankText(diff_text)
    /\ \E patch \in Patches :
          parsed' = [path |-> "strict", result |-> AddedOf(patch),
                     raised |-> None]
    /\ parse_pc' = "returned"
    /\ UNCHANGED <<orchestrator_vars, llm_vars, diff_text>>

\* mutant: only UnidiffParseError is caught
CaughtByParseDiff_ParseErrorOnly(e) == e = "UnidiffParseError"

\* except UnidiffParseError ... except Exception
CaughtByParseDiff(e) == e \in {"UnidiffParseError", "Exception"}

\* PatchSet or the loop over the patch raises: the fallback parser is
\* applied to the normalized text
ParseFallsBack ==
    /\ parse_pc = "called"
    /\ ~IsBlankText(diff_text)
    /\ \E e \in {"UnidiffParseError", "Exception"} :
          IF CaughtByParseDiff(e)
          THEN /\ parsed' =
                     [path |-> "fallback",
                      result |-> parse_diff_fallback(normalize_diff(diff_text)),
                      raised |-> None]
               /\ parse_pc' = "returned"
          ELSE /\ parsed' = [path |-> "strict", result |-> <<>>, raised |-> e]
               /\ parse_pc' = "raised"
    /\ UNCHANGED <<orchestrator_vars, llm_vars, diff_text>>

ParseInit ==
    /\ OrchestratorIdle
    /\ llm_settings = DefaultLlmSettings
    /\ NoReviewCall
    /\ NoGeminiCall
    /\ NoLlmCall
    /\ parse_pc = "called"
    /\ diff_text \in DiffTexts
    /\ parsed = NoParse

ParseNext == ParseEmpty \/ ParseStrict \/ ParseFallsBack

ParseSpec == ParseInit /\ [][ParseNext]_vars

(***************************************************************************)
(* C35: parse_diff is total: for every diff text it returns a list of      *)
(* change records and never raises; empty or whitespace-only text yields   *)
(* an empty list, and any failure of the strict parser falls back to the   *)
(* manual parser instead of propagating.                                   *)
(***************************************************************************)
IsChangeRecord(c) ==
    /\ DOMAIN c = {"file_path", "new_line_no", "content"}
    /\ c.new_line_no \in Nat

C35_ParseDiffTotal ==
    /\ parse_pc # "raised"
    /\ parse_pc = "returned" =>
          /\ parsed.raised = None
          /\ \A i \in 1..Len(parsed.result) : IsChangeRecord(parsed.result[i])
          /\ IsBlankText(diff_text) =>
                parsed.path = "empty" /\ parsed.result = <<>>
          /\ parsed.path = "fallback" =>
                parsed.result =
                    parse_diff_fallback(normalize_diff(diff_text))

\* the strict parser failed on a text with an unfinished hunk header; the
\* manual parser was given the normalized text and returned a change
C35_Witness ==
    /\ parse_pc = "returned"
    /\ parsed.path = "fallback"
    /\ DiffLine.HunkHeaderBad \in Range(diff_text)
    /\ normalize_diff(diff_text) # diff_text
    /\ Len(parsed.result) = 1

(***************************************************************************)
(* Reading a run of parse_diff_fallback: its input, the input lines that   *)
(* made it emit a record, and the headers that precede a line.             *)
(***************************************************************************)
FellBack == parse_pc = "returned" /\ parsed.path = "fallback"

FallbackInput == normalize_diff(diff_text)

StateAfter(k) == FallbackLoop(SubSeq(FallbackInput, 1, k), FallbackStart)

\* the input lines at which a record was appended
EmittedAt ==
    {k \in 1..Len(FallbackInput) :
        Len(StateAfter(k).changes) > Len(StateAfter(k - 1).changes)}

\* the record appended at input line k
RecordAt(k) == StateAfter(k).changes[Len(StateAfter(k).changes)]

IsFileHeader(line) == StartsWith(line, <<"+", "+", "+">>)

IsHunkHeader(line) == ~IsFileHeader(line) /\ StartsWith(line, <<"@", "@">>)

IsAdded(line) == ~IsFileHeader(line) /\ StartsWith(line, <<"+">>)

IsContext(line) == StartsWith(line, <<" ">>)

NamesPath(line) == Len(Split(line)) >= 2

\* the path a '+++' header names: its second word without a leading b/
PathOf(line) ==
    IF ~NamesPath(line) THEN <<>>
    ELSE IF StartsWith(Split(line)[2], <<"b", "/">>)
    THEN SubSeq(Split(line)[2], 3, Len(Split(line)[2]))
    ELSE Split(line)[2]

Latest(S) == CHOOSE h \in S : \A g \in S : g <= h

FileHeadersBefore(k) ==
    {h \in 1..(k - 1) : IsFileHeader(FallbackInput[h])}

PathHeadersBefore(k) ==
    {h \in FileHeadersBefore(k) : NamesPath(FallbackInput[h])}

\* the j-th smallest element of a set of numbers
NthOf(S, j) == CHOOSE i \in S : Cardinality({x \in S : x < i}) = j - 1

\* the records are the added lines that were emitted, in input order
RecordsInInputOrder ==
    /\ Len(parsed.result) = Cardinality(EmittedAt)
    /\ \A j \in 1..Len(parsed.result) :
          parsed.result[j] = RecordAt(NthOf(EmittedAt, j))
    /\ \A k \in EmittedAt :
          /\ IsAdded(FallbackInput[k])
          /\ RecordAt(k).content = Tail(FallbackInput[k])

(***************************************************************************)
(* C36: every change record emitted by parse_diff_fallback has a non-empty *)
(* file path taken from the most recent '+++' header and a line number of  *)
(* at least 1, and records are emitted in input order, one per added line  *)
(* that is emitted at all.                                                 *)
(***************************************************************************)
C36_FallbackValidity ==
    FellBack =>
        /\ RecordsInInputOrder
        /\ \A k \in EmittedAt :
              /\ RecordAt(k).file_path # <<>>
              /\ RecordAt(k).new_line_no >= 1
              /\ FileHeadersBefore(k) # {}
              /\ RecordAt(k).file_path =
                    PathOf(FallbackInput[Latest(FileHeadersBefore(k))])

\* C36 as amended: the file path is taken from the most recent '+++' line
\* that names a path (a '+++' line without a second word leaves the file
\* of the earlier header in force); the rest as stated.
C36_FallbackValidityOfPathHeaders ==
    FellBack =>
        /\ RecordsInInputOrder
        /\ \A k \in EmittedAt :
              /\ RecordAt(k).file_path # <<>>
              /\ RecordAt(k).new_line_no >= 1
              /\ PathHeadersBefore(k) # {}
              /\ RecordAt(k).file_path =
                    PathOf(FallbackInput[Latest(PathHeadersBefore(k))])

\* an added line is emitted for file a although a bare '+++' line stands
\* between its header and the line
C36_Witness ==
    /\ FellBack
    /\ \E k \in EmittedAt :
          /\ RecordAt(k).file_path = <<"a">>
          /\ FallbackInput[Latest(FileHeadersBefore(k))] =
                DiffLine.FileHeaderBare
          /\ RecordAt(k).new_line_no = 2

(***************************************************************************)
(* C37: every change record emitted by parse_diff_fallback has a line      *)
(* number equal to the new-file start declared by the most recent          *)
(* successfully parsed hunk header of its own file plus the number of      *)
(* added and context lines that precede it in that hunk (removed lines do  *)
(* not advance the counter); added lines that follow a hunk header that    *)
(* could not be parsed, or that precede the first hunk header of their     *)
(* file, are not emitted.                                                  *)
(***************************************************************************)
\* the start of the new file's range a hunk header declares, if it has one
DeclaredStart(line) ==
    IF Len(Split(line)) < 3 THEN [ok |-> FALSE, value |-> 0]
    ELSE LET new_lines == Remove(Split(line)[3], "+")
         IN IF Contains(new_lines, <<",">>)
            THEN int(BeforeComma(new_lines))
            ELSE int(new_lines)

\* the hunk headers between the header of the file of line k and line k
HunkHeadersOfFileBefore(k) ==
    {h \in 1..(k - 1) :
        /\ IsHunkHeader(FallbackInput[h])
        /\ \A f \in PathHeadersBefore(k) : f < h}

\* the added and context lines between lines h and k
CountedBetween(h, k) ==
    {j \in (h + 1)..(k - 1) :
        IsAdded(FallbackInput[j]) \/ IsContext(FallbackInput[j])}

C37_FallbackLineTracking ==
    FellBack =>
        \A k \in EmittedAt :
            /\ HunkHeadersOfFileBefore(k) # {}
            /\ LET h == Latest(HunkHeadersOfFileBefore(k))
               IN /\ DeclaredStart(FallbackInput[h]).ok
                  /\ RecordAt(k).new_line_no =
                        DeclaredStart(FallbackInput[h]).value
                            + Cardinality(CountedBetween(h, k))

====
